---------------------------- MODULE Spec2Model ----------------------------
(***************************************************************************)
(* A model of the MCP servers of raspberry-pi-mcp-servers: the dispatcher  *)
(* of BaseMCPServer (examples/base_server.py) with its two subclasses, and *)
(* the call_tool handlers of the four standalone servers.                  *)
(*                                                                         *)
(* Python values are tagged records; json.dumps and str() are computed as  *)
(* CPython computes them, down to the text they produce.                   *)
(***************************************************************************)
EXTENDS Integers, Sequences, FiniteSets, TLC

(***************************************************************************)
(* Python values                                                           *)
(***************************************************************************)
PyStr(s) == [kind |-> "str", s |-> s]
PyBytes(s) == [kind |-> "bytes", s |-> s]
PyInt(n) == [kind |-> "int", n |-> n]
PyBool(b) == [kind |-> "bool", b |-> b]
\* a float, by its repr ("85.0")
PyFloat(repr) == [kind |-> "float", repr |-> repr]
PyNone == [kind |-> "None"]
\* a list / tuple of values
PyList(items) == [kind |-> "list", items |-> items]
PyTuple(items) == [kind |-> "tuple", items |-> items]
\* a dict, as its items in insertion order: a sequence of <<key, value>>
PyDict(items) == [kind |-> "dict", items |-> items]
\* an object json cannot serialize (a datetime, a set, ...); str(o) = o.str
PyObject(cls, str) == [kind |-> "object", cls |-> cls, str |-> str]
\* inside a container: a reference to a container that encloses it
PyBackRef == [kind |-> "backref"]
\* an exception instance with one argument
Exc(cls, arg) == [kind |-> "exception", cls |-> cls, arg |-> arg]

\* mcp.types.TextContent / ImageContent
TextContent(text) == [kind |-> "TextContent", type |-> "text", text |-> text]
ImageContent(data, mimeType) ==
    [kind |-> "ImageContent", type |-> "image", data |-> data, mimeType |-> mimeType]

\* the outcome of a call: a returned value, or an exception that propagates
Return(v) == [kind |-> "return", value |-> v]
Raise(e) == [kind |-> "raise", exc |-> e]

\* the classes `except Exception` catches; every class raised in the
\* repository derives from Exception
ExceptionClasses ==
    {"Exception", "ValueError", "KeyError", "TypeError", "AttributeError",
     "ValidationError", "RuntimeError", "OSError", "PermissionError",
     "AccessDenied",
     "ConnectionRefusedError", "PostgresError", "HTTPError"}

IsException(e) == e.cls \in ExceptionClasses

\* the class name json and str() report for a value
ClassName(o) ==
    CASE o.kind = "object" -> o.cls
      [] o.kind = "None" -> "NoneType"
      [] OTHER -> o.kind

(***************************************************************************)
(* str()                                                                   *)
(***************************************************************************)
\* str(e) of an exception: its argument, but KeyError shows repr(key)
exc_str(e) ==
    IF e.cls = "KeyError" THEN "'" \o e.arg \o "'" ELSE e.arg

\* str(o) of the values json.dumps hands to default=str
py_str(o) ==
    CASE o.kind = "str" -> o.s
      [] o.kind = "bytes" -> "b'" \o o.s \o "'"
      [] o.kind = "object" -> o.str
      [] o.kind = "TextContent" ->
            "type='text' text='" \o o.text \o "' annotations=None"
      [] o.kind = "ImageContent" ->
            "type='image' data='" \o o.data \o "' mimeType='" \o o.mimeType
                \o "' annotations=None"
      [] o.kind = "exception" -> exc_str(o)
      [] o.kind = "int" -> ToString(o.n)
      [] o.kind = "float" -> o.repr
      [] o.kind = "bool" -> IF o.b THEN "True" ELSE "False"
      [] o.kind = "None" -> "None"
      [] OTHER -> "<" \o ClassName(o) \o ">"

(***************************************************************************)
(* json.dumps                                                              *)
(***************************************************************************)
Ok(text) == [ok |-> TRUE, text |-> text]
Fail(e) == [ok |-> FALSE, exc |-> e]

\* json.encoder.py_encode_basestring_ascii on the ASCII characters lo..hi of
\* s, without the quotes
RECURSIVE json_escape(_, _, _)
json_escape(s, lo, hi) ==
    IF lo > hi THEN ""
    ELSE IF \A i \in lo..hi : SubSeq(s, i, i) \notin {"\"", "\\", "\n", "\t"}
    THEN SubSeq(s, lo, hi)
    ELSE IF lo = hi
    THEN LET c == SubSeq(s, lo, lo)
         IN CASE c = "\"" -> "\\\""
              [] c = "\\" -> "\\\\"
              [] c = "\n" -> "\\n"
              [] c = "\t" -> "\\t"
              [] OTHER -> c
    ELSE LET mid == (lo + hi) \div 2
         IN json_escape(s, lo, mid) \o json_escape(s, mid + 1, hi)

json_string(s) == "\"" \o json_escape(s, 1, Len(s)) \o "\""

RECURSIVE Spaces(_)
Spaces(n) == IF n <= 0 THEN "" ELSE " " \o Spaces(n - 1)

\* the newline and indentation json puts before an item at nesting `level`
\* (indent=2), nothing when indent is None
newline_indent(level, pretty) ==
    IF pretty THEN "\n" \o Spaces(2 * level) ELSE ""

item_separator(pretty) == IF pretty THEN "," ELSE ", "

\* a dict key as json writes it: str kept, int/bool/None converted, any
\* other key is a TypeError (default= is never asked about keys)
json_key(k) ==
    CASE k.kind = "str" -> Ok(json_string(k.s))
      [] k.kind = "int" -> Ok(json_string(ToString(k.n)))
      [] k.kind = "float" -> Ok(json_string(k.repr))
      [] k.kind = "bool" -> Ok(json_string(IF k.b THEN "true" ELSE "false"))
      [] k.kind = "None" -> Ok(json_string("null"))
      [] OTHER -> Fail(Exc("TypeError",
            "keys must be str, int, float, bool or None, not " \o ClassName(k)))

RECURSIVE json_encode(_, _, _, _), json_items(_, _, _, _, _, _),
          json_pairs(_, _, _, _, _, _)
\* json.JSONEncoder._iterencode of `o` at nesting `level`
json_encode(o, level, pretty, dflt) ==
    CASE o.kind = "str" -> Ok(json_string(o.s))
      [] o.kind = "None" -> Ok("null")
      [] o.kind = "bool" -> Ok(IF o.b THEN "true" ELSE "false")
      [] o.kind = "int" -> Ok(ToString(o.n))
      [] o.kind = "float" -> Ok(o.repr)
      [] o.kind \in {"list", "tuple"} ->
            IF o.items = <<>> THEN Ok("[]")
            ELSE LET body == json_items(o.items, 1, Len(o.items), level + 1,
                                            pretty, dflt)
                 IN IF body.ok
                    THEN Ok("[" \o body.text \o newline_indent(level, pretty)
                                \o "]")
                    ELSE body
      [] o.kind = "dict" ->
            IF o.items = <<>> THEN Ok("{}")
            ELSE LET body == json_pairs(o.items, 1, Len(o.items), level + 1,
                                            pretty, dflt)
                 IN IF body.ok
                    THEN Ok("{" \o body.text \o newline_indent(level, pretty)
                                \o "}")
                    ELSE body
      [] o.kind = "backref" ->
            Fail(Exc("ValueError", "Circular reference detected"))
      [] OTHER ->
            IF dflt THEN json_encode(PyStr(py_str(o)), level, pretty, dflt)
            ELSE Fail(Exc("TypeError", "Object of type " \o ClassName(o)
                                        \o " is not JSON serializable"))

\* the items lo..hi of a list, in order, each on its line; the first item
\* that cannot be written decides the failure
json_items(items, lo, hi, level, pretty, dflt) ==
    IF lo > hi THEN Ok("")
    ELSE IF lo = hi
    THEN LET val == json_encode(items[lo], level, pretty, dflt)
         IN IF ~val.ok THEN val
            ELSE Ok((IF lo > 1 THEN item_separator(pretty) ELSE "")
                    \o newline_indent(level, pretty) \o val.text)
    ELSE LET mid == (lo + hi) \div 2
             left == json_items(items, lo, mid, level, pretty, dflt)
         IN IF ~left.ok THEN left
            ELSE LET right == json_items(items, mid + 1, hi, level, pretty, dflt)
                 IN IF ~right.ok THEN right
                    ELSE Ok(left.text \o right.text)

\* the key: value pairs lo..hi of a dict, in order
json_pairs(items, lo, hi, level, pretty, dflt) ==
    IF lo > hi THEN Ok("")
    ELSE IF lo = hi
    THEN LET key == json_key(items[lo][1])
         IN IF ~key.ok THEN key
            ELSE LET val == json_encode(items[lo][2], level, pretty, dflt)
                 IN IF ~val.ok THEN val
                    ELSE Ok((IF lo > 1 THEN item_separator(pretty) ELSE "")
                            \o newline_indent(level, pretty)
                            \o key.text \o ": " \o val.text)
    ELSE LET mid == (lo + hi) \div 2
             left == json_pairs(items, lo, mid, level, pretty, dflt)
         IN IF ~left.ok THEN left
            ELSE LET right == json_pairs(items, mid + 1, hi, level, pretty, dflt)
                 IN IF ~right.ok THEN right
                    ELSE Ok(left.text \o right.text)

\* json.dumps(o, indent=2 when pretty, default=str when dflt)
json_dumps(o, pretty, dflt) == json_encode(o, 0, pretty, dflt)


(***************************************************************************)
(* dict and list helpers                                                   *)
(***************************************************************************)
\* key in d
dict_has(d, k) == \E i \in 1..Len(d.items) : d.items[i][1] = PyStr(k)

\* d[k], for a key that is present (the last item of that key)
dict_item(d, k) ==
    LET at == {j \in 1..Len(d.items) : d.items[j][1] = PyStr(k)}
        i == CHOOSE j \in at : \A h \in at : h <= j
    IN d.items[i][2]

\* d.get(k, default)
dict_get(d, k, default) == IF dict_has(d, k) THEN dict_item(d, k) ELSE default

\* the first key of `keys` that `d` lacks, "" when it has them all: the key
\* of the KeyError that a run of d[k] lookups in this order raises
RECURSIVE first_missing(_, _, _)
first_missing(d, keys, i) ==
    IF i > Len(keys) THEN ""
    ELSE IF dict_has(d, keys[i]) THEN first_missing(d, keys, i + 1)
    ELSE keys[i]

Min(a, b) == IF a <= b THEN a ELSE b

(***************************************************************************)
(* BaseMCPServer (examples/base_server.py)                                 *)
(***************************************************************************)
IsContent(item) == item.kind \in {"TextContent", "ImageContent"}

\* ImageContent(type="image", data=result): the call gives no mimeType. An
\* mcp release whose model requires the field rejects it (requires_mimeType);
\* the SDK is not part of the repository, so both behaviours are kept.
new_ImageContent(data, requires_mimeType) ==
    IF requires_mimeType
    THEN Raise(Exc("ValidationError",
                   "1 validation error for ImageContent mimeType Field required"))
    ELSE Return(ImageContent(data, ""))

\* _format_result without its pass-through branch: a list of content blocks
\* is serialized like any other list
format_result_without_pass_through(result, requires_mimeType) ==
    IF result.kind = "str"
    THEN Return(PyList(<<TextContent(result.s)>>))
    ELSE IF result.kind = "bytes"
    THEN LET img == new_ImageContent(result.s, requires_mimeType)
         IN IF img.kind = "return" THEN Return(PyList(<<img.value>>)) ELSE img
    ELSE LET text == json_dumps(result, TRUE, TRUE)
         IN IF text.ok THEN Return(PyList(<<TextContent(text.text)>>))
            ELSE Raise(text.exc)

\* BaseMCPServer._format_result
format_result(result, requires_mimeType) ==
    IF result.kind = "str"
    THEN Return(PyList(<<TextContent(result.s)>>))
    ELSE IF result.kind = "bytes"
    THEN LET img == new_ImageContent(result.s, requires_mimeType)
         IN IF img.kind = "return" THEN Return(PyList(<<img.value>>)) ELSE img
    ELSE IF /\ result.kind = "list"
            /\ \A i \in 1..Len(result.items) : IsContent(result.items[i])
    THEN Return(result)
    ELSE LET text == json_dumps(result, TRUE, TRUE)
         IN IF text.ok THEN Return(PyList(<<TextContent(text.text)>>))
            ELSE Raise(text.exc)

\* datetime.isoformat() of the clock reading t
isoformat(t) == "2025-01-01T00:00:0" \o ToString(t)

\* an ErrorPayload that reports repr(e) where the code reports str(e)
error_payload_repr(e, name, t) ==
    PyDict(<< <<PyStr("error"), PyStr(e.cls \o "('" \o e.arg \o "')")>>,
              <<PyStr("tool"), PyStr(name)>>,
              <<PyStr("timestamp"), PyStr(isoformat(t))>> >>)

\* the ErrorPayload of the except branch of handle_call_tool
error_payload(e, name, t) ==
    PyDict(<< <<PyStr("error"), PyStr(exc_str(e))>>,
              <<PyStr("tool"), PyStr(name)>>,
              <<PyStr("timestamp"), PyStr(isoformat(t))>> >>)

LogLine(level, message) == [level |-> level, message |-> message]

\* what a tool call did: its outcome, the branch it took, the HTTP requests
\* it sent, the calls it made on database connections, and the lines it
\* printed to standard output
Did(out, branch, http, db, stdout) ==
    [out |-> out, branch |-> branch, http |-> http, db |-> db,
     stdout |-> stdout]
Executed(out, branch, http) == Did(out, branch, http, <<>>, <<>>)

\* BaseMCPServer.create_tool: the Tool with its inputSchema. `required` is
\* the set of the names in `required or []`: empty when the argument is None
create_tool(name, description, required) ==
    [kind |-> "Tool", name |-> name, description |-> description,
     required |-> required]

\* a handle_list_tools that answers a failure with an empty list
handle_list_tools_returning_empty(got) ==
    IF got.kind = "return" /\ got.value.kind = "list"
    THEN [out |-> got, stderr |-> <<>>]
    ELSE [out |-> Return(PyList(<<>>)), stderr |-> <<>>]

\* BaseMCPServer.handle_list_tools; `got` is what self.get_tools() does.
\* len(tools) of the debug line is evaluated though DEBUG is off
handle_list_tools(got) ==
    LET tried ==
            IF got.kind = "raise" THEN got
            ELSE IF got.value.kind \notin {"list", "tuple", "dict", "str", "bytes"}
            THEN Raise(Exc("TypeError", "object of type '"
                            \o ClassName(got.value) \o "' has no len()"))
            ELSE got
        caught == tried.kind = "raise" /\ IsException(tried.exc)
    IN [out |-> tried,
        stderr |-> IF caught
                   THEN <<LogLine("ERROR", "Error listing tools: "
                                            \o exc_str(tried.exc))>>
                   ELSE <<>>]

\* the try block of handle_call_tool: the log lines, execute_tool,
\* _format_result. `exec` is what self.execute_tool(name, arguments) does
\* when it is called. The f-string of logger.debug is built even though
\* DEBUG is off.
try_block(arguments, exec, requires_mimeType) ==
    LET logged == json_dumps(arguments, TRUE, FALSE)
    IN IF ~logged.ok THEN Raise(logged.exc)
       ELSE IF exec.out.kind = "raise" THEN exec.out
       ELSE format_result(exec.out.value, requires_mimeType)

\* the except branch: the envelope that holds the ErrorPayload
except_block(e, name, t) ==
    Return(PyList(<<TextContent(
        json_dumps(error_payload(e, name, t), TRUE, FALSE).text)>>))

\* the lines handle_call_tool logs at INFO or above
logged_lines(name, tried, caught) ==
    IF caught
    THEN <<LogLine("INFO", "Executing tool: " \o name),
           LogLine("ERROR", "Error executing tool " \o name \o ": "
                              \o exc_str(tried.exc))>>
    ELSE <<LogLine("INFO", "Executing tool: " \o name)>>

\* handle_call_tool with `except ValueError` where the code has
\* `except Exception`
handle_call_tool_except_ValueError(self, name, arguments, exec, t, requires_mimeType) ==
    LET tried == try_block(arguments, exec, requires_mimeType)
        caught == tried.kind = "raise" /\ tried.exc.cls = "ValueError"
    IN [out |-> IF caught THEN except_block(tried.exc, name, t) ELSE tried,
        self |-> self,
        stderr |-> logged_lines(name, tried, caught),
        entered |-> json_dumps(arguments, TRUE, FALSE).ok,
        failed |-> caught]

\* handle_call_tool with an except branch that takes the server out of
\* service: it clears self.base_url
handle_call_tool_marking_failure(self, name, arguments, exec, t, requires_mimeType) ==
    LET tried == try_block(arguments, exec, requires_mimeType)
        caught == tried.kind = "raise" /\ IsException(tried.exc)
    IN [out |-> IF caught THEN except_block(tried.exc, name, t) ELSE tried,
        self |-> IF caught THEN [self EXCEPT !.base_url = ""] ELSE self,
        stderr |-> logged_lines(name, tried, caught),
        entered |-> json_dumps(arguments, TRUE, FALSE).ok,
        failed |-> caught]

\* BaseMCPServer.handle_call_tool. `self` is the server object, t the clock.
\* Gives the outcome of the call, the object afterwards, the lines logged,
\* whether execute_tool was entered and whether the except branch ran.
handle_call_tool(self, name, arguments, exec, t, requires_mimeType) ==
    LET tried == try_block(arguments, exec, requires_mimeType)
        caught == tried.kind = "raise" /\ IsException(tried.exc)
    IN [out |-> IF caught THEN except_block(tried.exc, name, t) ELSE tried,
        self |-> self,
        stderr |-> logged_lines(name, tried, caught),
        entered |-> json_dumps(arguments, TRUE, FALSE).ok,
        failed |-> caught]

\* ExampleMCPServer.get_tools: the names, in declaration order
example_get_tools == <<"echo", "get_time">>

\* an execute_tool that answers an unknown name with a sentence, as the
\* servers without the base class do, where ExampleMCPServer raises
example_execute_tool_returning_text(name, arguments, t) ==
    IF name = "echo"
    THEN Executed(Return(PyStr("Echo: "
                    \o py_str(dict_get(arguments, "message", PyStr(""))))),
                  "echo", <<>>)
    ELSE IF name = "get_time"
    THEN Executed(Return(PyDict(<< <<PyStr("time"), PyStr(isoformat(t))>>,
                                   <<PyStr("timezone"), PyStr("UTC")>> >>)),
                  "get_time", <<>>)
    ELSE Executed(Return(PyStr("Unknown tool: " \o name)), "else", <<>>)

\* ExampleMCPServer.execute_tool
example_execute_tool(name, arguments, t) ==
    IF name = "echo"
    THEN Executed(Return(PyStr("Echo: "
                    \o py_str(dict_get(arguments, "message", PyStr(""))))),
                  "echo", <<>>)
    ELSE IF name = "get_time"
    THEN Executed(Return(PyDict(<< <<PyStr("time"), PyStr(isoformat(t))>>,
                                   <<PyStr("timezone"), PyStr("UTC")>> >>)),
                  "get_time", <<>>)
    ELSE Executed(Raise(Exc("ValueError", "Unknown tool: " \o name)),
                  "else", <<>>)

(***************************************************************************)
(* GitHubMCPServer (github_mcp.py)                                         *)
(***************************************************************************)
\* what api.github.com does with one request
HttpOk(body) == [kind |-> "ok", status |-> 200, body |-> body]
HttpNoContent == [kind |-> "ok", status |-> 204, body |-> PyNone]
\* an error status; `body` is the parsed JSON body, PyNone when it is not JSON
HttpStatusError(status, reason, body) ==
    [kind |-> "status_error", status |-> status, reason |-> reason, body |-> body]
\* no response at all: the connection failed
HttpConnectionError == [kind |-> "connection_error"]

\* endpoint.lstrip('/')
RECURSIVE lstrip_slash(_)
lstrip_slash(s) ==
    IF Len(s) > 0 /\ SubSeq(s, 1, 1) = "/"
    THEN lstrip_slash(SubSeq(s, 2, Len(s)))
    ELSE s

\* GitHubMCPServer._make_request; `http` is what the API does
make_request(self, method, endpoint, http) ==
    LET url == self.base_url \o "/" \o lstrip_slash(endpoint)
    IN IF method \notin {"GET", "POST", "PUT", "DELETE"}
       THEN Raise(Exc("ValueError", "Unsupported HTTP method: " \o method))
       ELSE IF http.kind = "ok"
       THEN IF http.status = 204
            THEN Return(PyDict(<< <<PyStr("success"), PyBool(TRUE)>> >>))
            ELSE Return(http.body)
       ELSE IF http.kind = "status_error"
       THEN LET e == Exc("HTTPError", ToString(http.status) \o " Client Error: "
                              \o http.reason \o " for url: " \o url)
                \* the try block: e.response.json(), then the raise that
                \* carries the API's message
                inner ==
                    IF http.body.kind = "dict"
                    THEN Raise(Exc("Exception", "GitHub API error: "
                            \o py_str(dict_get(http.body, "message",
                                               PyStr(exc_str(e))))))
                    ELSE Raise(Exc("ValueError", "Expecting value"))
            \* the bare except around it catches whatever the try raised,
            \* the raise above included, and raises with str(e) instead
            IN IF inner.kind = "raise"
               THEN Raise(Exc("Exception", "GitHub API error: " \o exc_str(e)))
               ELSE inner
       ELSE Raise(Exc("Exception", "GitHub API request failed: "
                        \o "Connection refused"))

\* GitHubMCPServer.get_tools: the names, in declaration order
github_get_tools ==
    <<"github_list_repos", "github_get_repo", "github_create_repo",
      "github_list_issues", "github_create_issue", "github_create_pr",
      "github_get_user">>

\* the arguments[...] lookups of a tool, in the order the code makes them
\* before it sends its request
github_subscripts(name) ==
    CASE name = "github_get_repo" -> <<"owner", "repo">>
      [] name = "github_create_repo" -> <<"name">>
      [] name = "github_list_issues" -> <<"owner", "repo">>
      [] name = "github_create_issue" -> <<"owner", "repo", "title">>
      [] name = "github_create_pr" -> <<"owner", "repo", "title", "head">>
      [] OTHER -> <<>>

HttpRequest(method, endpoint) == [method |-> method, endpoint |-> endpoint]

\* the request a tool sends
github_request(name, arguments) ==
    LET owner == py_str(dict_get(arguments, "owner", PyStr("")))
        repo == py_str(dict_get(arguments, "repo", PyStr("")))
        state == py_str(dict_get(arguments, "state", PyStr("open")))
        limit == dict_get(arguments, "limit", PyInt(30)).n
    IN CASE name = "github_list_repos" -> HttpRequest("GET", "/user/repos")
         [] name = "github_get_repo" ->
                HttpRequest("GET", "/repos/" \o owner \o "/" \o repo)
         [] name = "github_create_repo" -> HttpRequest("POST", "/user/repos")
         [] name = "github_list_issues" ->
                HttpRequest("GET", "/repos/" \o owner \o "/" \o repo
                    \o "/issues?state=" \o state \o "&per_page="
                    \o ToString(Min(limit, 100)))
         [] name = "github_create_issue" ->
                HttpRequest("POST", "/repos/" \o owner \o "/" \o repo \o "/issues")
         [] name = "github_create_pr" ->
                HttpRequest("POST", "/repos/" \o owner \o "/" \o repo \o "/pulls")
         [] OTHER -> HttpRequest("GET", "/user")

\* the fields a tool copies out of a response object: <<key of the result,
\* key of the response, how it is read>>: "[]" for data[key], "get" for
\* data.get(key), "get_str" for data.get(key, ""), "login" for
\* data[key]["login"], "names" for [l["name"] for l in data.get(key, [])]
repo_fields ==
    << <<"name", "name", "[]">>, <<"full_name", "full_name", "[]">>,
       <<"private", "private", "[]">>, <<"description", "description", "get">>,
       <<"url", "html_url", "[]">>, <<"clone_url", "clone_url", "[]">>,
       <<"ssh_url", "ssh_url", "[]">>, <<"created_at", "created_at", "[]">>,
       <<"updated_at", "updated_at", "[]">>, <<"language", "language", "get">>,
       <<"stars", "stargazers_count", "[]">>, <<"forks", "forks_count", "[]">> >>

github_fields(name) ==
    CASE name = "github_list_repos" -> repo_fields
      [] name = "github_get_repo" ->
            repo_fields \o << <<"open_issues", "open_issues_count", "[]">>,
                              <<"default_branch", "default_branch", "[]">> >>
      [] name = "github_create_repo" ->
            << <<"name", "name", "[]">>, <<"full_name", "full_name", "[]">>,
               <<"url", "html_url", "[]">>, <<"clone_url", "clone_url", "[]">>,
               <<"ssh_url", "ssh_url", "[]">>, <<"private", "private", "[]">> >>
      [] name = "github_list_issues" ->
            << <<"number", "number", "[]">>, <<"title", "title", "[]">>,
               <<"body", "body", "get_str">>, <<"state", "state", "[]">>,
               <<"user", "user", "login">>, <<"labels", "labels", "names">>,
               <<"created_at", "created_at", "[]">>,
               <<"updated_at", "updated_at", "[]">>,
               <<"url", "html_url", "[]">> >>
      [] name \in {"github_create_issue", "github_create_pr"} ->
            << <<"number", "number", "[]">>, <<"title", "title", "[]">>,
               <<"url", "html_url", "[]">>, <<"state", "state", "[]">> >>
      [] OTHER ->
            << <<"login", "login", "[]">>, <<"name", "name", "get">>,
               <<"email", "email", "get">>, <<"bio", "bio", "get">>,
               <<"public_repos", "public_repos", "[]">>,
               <<"followers", "followers", "[]">>,
               <<"following", "following", "[]">>,
               <<"created_at", "created_at", "[]">>,
               <<"url", "html_url", "[]">> >>

\* d[k] of any value d: a KeyError when the dict lacks k, a TypeError when d
\* is no dict
subscript(d, k) ==
    IF d.kind # "dict"
    THEN Raise(Exc("TypeError", "'" \o ClassName(d)
                    \o "' object is not subscriptable"))
    ELSE IF ~dict_has(d, k) THEN Raise(Exc("KeyError", k))
    ELSE Return(dict_item(d, k))

\* [label["name"] for label in labels]
RECURSIVE label_names(_, _)
label_names(labels, i) ==
    IF labels.kind # "list"
    THEN Raise(Exc("TypeError", "'" \o ClassName(labels)
                    \o "' object is not iterable"))
    ELSE IF i > Len(labels.items) THEN Return(PyList(<<>>))
    ELSE LET head == subscript(labels.items[i], "name")
         IN IF head.kind = "raise" THEN head
            ELSE LET rest == label_names(labels, i + 1)
                 IN IF rest.kind = "raise" THEN rest
                    ELSE Return(PyList(<<head.value>> \o rest.value.items))

\* one field of the result, read out of the dict `data`
field_value(data, field) ==
    CASE field[3] = "[]" -> subscript(data, field[2])
      [] field[3] = "get" -> Return(dict_get(data, field[2], PyNone))
      [] field[3] = "get_str" -> Return(dict_get(data, field[2], PyStr("")))
      [] field[3] = "login" ->
            LET user == subscript(data, field[2])
            IN IF user.kind = "raise" THEN user
               ELSE subscript(user.value, "login")
      [] OTHER -> label_names(dict_get(data, field[2], PyList(<<>>)), 1)

\* the dict literal {out: ..., ...} over the fields lo..hi, evaluated in
\* order: the first lookup that raises ends it
RECURSIVE project(_, _, _, _)
project(data, fields, lo, hi) ==
    IF lo > hi THEN Return(PyDict(<<>>))
    ELSE IF lo = hi
    THEN LET val == IF data.kind = "dict" THEN field_value(data, fields[lo])
                    ELSE subscript(data, fields[lo][2])
         IN IF val.kind = "raise" THEN val
            ELSE Return(PyDict(<< <<PyStr(fields[lo][1]), val.value>> >>))
    ELSE LET mid == (lo + hi) \div 2
             left == project(data, fields, lo, mid)
         IN IF left.kind = "raise" THEN left
            ELSE LET right == project(data, fields, mid + 1, hi)
                 IN IF right.kind = "raise" THEN right
                    ELSE Return(PyDict(left.value.items \o right.value.items))

\* the loop over repos[:limit] / issues[:limit]; list_issues skips the items
\* that carry a "pull_request" key
RECURSIVE project_all(_, _, _, _, _)
project_all(name, items, i, limit, fields) ==
    IF i > Min(Len(items), limit) THEN Return(<<>>)
    ELSE IF /\ name = "github_list_issues"
            /\ items[i].kind = "dict"
            /\ dict_has(items[i], "pull_request")
    THEN project_all(name, items, i + 1, limit, fields)
    ELSE LET head == project(items[i], fields, 1, Len(fields))
         IN IF head.kind = "raise" THEN head
            ELSE LET rest == project_all(name, items, i + 1, limit, fields)
                 IN IF rest.kind = "raise" THEN rest
                    ELSE Return(<<head.value>> \o rest.value)

\* GitHubMCPServer.execute_tool; `http` is what the API does with the request
github_execute_tool(self, name, arguments, http) ==
    LET missing == first_missing(arguments, github_subscripts(name), 1)
        req == github_request(name, arguments)
        resp == make_request(self, req.method, req.endpoint, http)
        limit == dict_get(arguments, "limit", PyInt(30)).n
        listed == project_all(name, resp.value.items, 1, limit,
                              github_fields(name))
        plural == IF name = "github_list_repos" THEN "repositories"
                  ELSE "issues"
    IN IF name \notin {github_get_tools[i] : i \in 1..Len(github_get_tools)}
       THEN Executed(Raise(Exc("ValueError", "Unknown tool: " \o name)),
                     "else", <<>>)
       ELSE IF missing # ""
       THEN Executed(Raise(Exc("KeyError", missing)), name, <<>>)
       ELSE IF resp.kind = "raise" THEN Executed(resp, name, <<req>>)
       ELSE IF name \in {"github_list_repos", "github_list_issues"}
       THEN IF resp.value.kind # "list"
            THEN Executed(Raise(Exc("TypeError", "unhashable type: 'slice'")),
                          name, <<req>>)
            ELSE IF listed.kind = "raise" THEN Executed(listed, name, <<req>>)
            ELSE Executed(Return(PyDict(
                    << <<PyStr(plural), PyList(listed.value)>>,
                       <<PyStr("count"), PyInt(Len(listed.value))>> >>)),
                    name, <<req>>)
       ELSE Executed(project(resp.value, github_fields(name), 1,
                             Len(github_fields(name))), name, <<req>>)

(***************************************************************************)
(* A one-level JSON reader, to read back what the servers send: an object  *)
(* whose values are all strings.                                           *)
(***************************************************************************)
IsSpace(c) == c \in {" ", "\n", "\t", "\r"}

RECURSIVE skip_ws(_, _)
skip_ws(s, i) ==
    IF i <= Len(s) /\ IsSpace(SubSeq(s, i, i)) THEN skip_ws(s, i + 1) ELSE i

\* how many backslashes stand in a row just before position k
backslashes_before(s, k) ==
    CHOOSE r \in 0..(k - 1) :
        /\ \A m \in (k - r)..(k - 1) : SubSeq(s, m, m) = "\\"
        /\ r = k - 1 \/ SubSeq(s, k - r - 1, k - r - 1) # "\\"

\* the character at k is the second half of an escape
escaped(s, k) == backslashes_before(s, k) % 2 = 1

\* the characters lo..hi of a JSON string with the escapes undone
RECURSIVE unescape(_, _, _)
unescape(s, lo, hi) ==
    IF lo > hi THEN ""
    ELSE IF lo = hi
    THEN LET c == SubSeq(s, lo, lo)
         IN IF escaped(s, lo)
            THEN (CASE c = "n" -> "\n" [] c = "t" -> "\t" [] OTHER -> c)
            ELSE IF c = "\\" THEN "" ELSE c
    ELSE LET mid == (lo + hi) \div 2
         IN unescape(s, lo, mid) \o unescape(s, mid + 1, hi)

\* the characters of a JSON string from i (just after its opening quote) to
\* its closing quote: [ok, val, next]
read_chars(s, i) ==
    LET closing == {k \in i..Len(s) : SubSeq(s, k, k) = "\"" /\ ~escaped(s, k)}
        j == CHOOSE k \in closing : \A h \in closing : k <= h
    IN IF closing = {} THEN [ok |-> FALSE, val |-> "", next |-> i]
       ELSE [ok |-> TRUE, val |-> unescape(s, i, j - 1), next |-> j + 1]

read_string(s, i) ==
    IF i <= Len(s) /\ SubSeq(s, i, i) = "\"" THEN read_chars(s, i + 1)
    ELSE [ok |-> FALSE, val |-> "", next |-> i]

\* the members of an object from i on, up to its closing brace, which must
\* end the text: [ok, items]
RECURSIVE read_members(_, _)
read_members(s, i) ==
    LET key == read_string(s, skip_ws(s, i))
        colon == skip_ws(s, key.next)
        val == read_string(s, skip_ws(s, colon + 1))
        after == skip_ws(s, val.next)
        bad == [ok |-> FALSE, items |-> <<>>]
    IN IF ~key.ok \/ colon > Len(s) \/ SubSeq(s, colon, colon) # ":" THEN bad
       ELSE IF ~val.ok \/ after > Len(s) THEN bad
       ELSE IF SubSeq(s, after, after) = "}"
       THEN [ok |-> skip_ws(s, after + 1) > Len(s),
             items |-> << <<key.val, val.val>> >>]
       ELSE IF SubSeq(s, after, after) = ","
       THEN LET rest == read_members(s, after + 1)
            IN [ok |-> rest.ok, items |-> << <<key.val, val.val>> >> \o rest.items]
       ELSE bad

\* json.loads(s) when s is an object of string members: [ok, items]; not ok
\* for any other text
json_loads_flat(s) ==
    LET i == skip_ws(s, 1)
    IN IF i > Len(s) \/ SubSeq(s, i, i) # "{"
       THEN [ok |-> FALSE, items |-> <<>>]
       ELSE LET j == skip_ws(s, i + 1)
            IN IF j <= Len(s) /\ SubSeq(s, j, j) = "}"
               THEN [ok |-> skip_ws(s, j + 1) > Len(s), items |-> <<>>]
               ELSE read_members(s, i + 1)

\* the keys of a parsed object, and the value of a key that is there
loaded_keys(obj) == {obj.items[i][1] : i \in 1..Len(obj.items)}
loaded_value(obj, k) ==
    obj.items[CHOOSE i \in 1..Len(obj.items) : obj.items[i][1] = k][2]

(***************************************************************************)
(* system_monitor_mcp.py                                                   *)
(***************************************************************************)
\* WATCHDOG_CONFIG['enabled']
WATCHDOG_ENABLED == TRUE

\* WATCHDOG_CONFIG
WATCHDOG_CONFIG ==
    PyDict(<< <<PyStr("cpu_threshold"), PyFloat("85.0")>>,
              <<PyStr("memory_threshold"), PyFloat("80.0")>>,
              <<PyStr("disk_threshold"), PyFloat("90.0")>>,
              <<PyStr("temp_threshold"), PyFloat("70.0")>>,
              <<PyStr("check_interval"), PyInt(30)>>,
              <<PyStr("enabled"), PyBool(WATCHDOG_ENABLED)>> >>)

\* what the host does when a tool samples it: every psutil call answers
\* (HostOk), the psutil call of the tool raises e (HostRaises), or the
\* process table holds an entry whose cpu_percent psutil could not read and
\* gave as None (HostNoneCpu)
HostOk == [kind |-> "ok"]
HostRaises(e) == [kind |-> "raises", exc |-> e]
HostNoneCpu == [kind |-> "none_cpu"]

Text1(text) == Return(PyList(<<TextContent(text)>>))

\* start_watchdog without the test of the run flag
start_watchdog_unconditional(running, thread) ==
    IF WATCHDOG_ENABLED
    THEN [ret |-> TRUE, running |-> TRUE, thread |-> thread + 1]
    ELSE [ret |-> FALSE, running |-> running, thread |-> thread]

\* start_watchdog that sets the flag but starts no thread
start_watchdog_without_thread(running, thread) ==
    IF ~running /\ WATCHDOG_ENABLED
    THEN [ret |-> TRUE, running |-> TRUE, thread |-> thread]
    ELSE [ret |-> FALSE, running |-> running, thread |-> thread]

\* start_watchdog: [ret, running, thread]; a thread is named by its number,
\* 0 is None
start_watchdog(running, thread) ==
    IF ~running /\ WATCHDOG_ENABLED
    THEN [ret |-> TRUE, running |-> TRUE, thread |-> thread + 1]
    ELSE [ret |-> FALSE, running |-> running, thread |-> thread]

\* stop_watchdog
stop_watchdog(running, thread) ==
    [ret |-> TRUE, running |-> FALSE, thread |-> thread]

\* get_watchdog_status; `alive` is watchdog_thread.is_alive()
get_watchdog_status(running, thread, alive) ==
    PyDict(<< <<PyStr("running"), PyBool(running)>>,
              <<PyStr("config"), WATCHDOG_CONFIG>>,
              <<PyStr("thread_alive"), PyBool(thread # 0 /\ alive)>> >>)

\* get_system_status: every failure inside becomes {'error': str(e)}
get_system_status(host) ==
    IF host.kind = "raises"
    THEN PyDict(<< <<PyStr("error"), PyStr(exc_str(host.exc))>> >>)
    ELSE PyDict(<<
        <<PyStr("timestamp"), PyStr("2025-01-01T00:00:00")>>,
        <<PyStr("cpu"), PyDict(<< <<PyStr("usage_percent"), PyFloat("12.5")>>,
                                  <<PyStr("cores"), PyInt(4)>> >>)>>,
        <<PyStr("memory"), PyDict(<< <<PyStr("total_gb"), PyFloat("7.63")>>,
                                     <<PyStr("used_gb"), PyFloat("2.1")>>,
                                     <<PyStr("available_gb"), PyFloat("5.2")>>,
                                     <<PyStr("percent"), PyFloat("31.8")>> >>)>>,
        <<PyStr("disk"), PyDict(<< <<PyStr("total_gb"), PyFloat("58.0")>>,
                                   <<PyStr("used_gb"), PyFloat("20.5")>>,
                                   <<PyStr("free_gb"), PyFloat("35.1")>>,
                                   <<PyStr("percent"), PyFloat("35.3")>> >>)>>,
        <<PyStr("network"), PyDict(<< <<PyStr("bytes_sent"), PyInt(1024)>>,
                                      <<PyStr("bytes_recv"), PyInt(2048)>> >>)>>,
        <<PyStr("temperature"), PyStr("48.3C")>>,
        <<PyStr("load_average"), PyStr("up 1 day, load average: 0.10")>> >>)

ProcessInfo(pid, pname, cpu) ==
    PyDict(<< <<PyStr("pid"), PyInt(pid)>>, <<PyStr("name"), PyStr(pname)>>,
              <<PyStr("cpu_percent"), cpu>>,
              <<PyStr("memory_percent"), PyFloat("0.1")>> >>)

\* get_processes(limit): the table sorted by cpu_percent, cut to limit. The
\* sort compares the cpu_percent values: a None among floats is a TypeError
get_processes(limit, host) ==
    IF host.kind = "raises" THEN Raise(host.exc)
    ELSE IF host.kind = "none_cpu"
    THEN Raise(Exc("TypeError",
        "'<' not supported between instances of 'NoneType' and 'float'"))
    ELSE LET sorted == <<ProcessInfo(7, "python3", PyFloat("3.0")),
                         ProcessInfo(1, "systemd", PyFloat("0.0"))>>
         IN Return(PyList(SubSeq(sorted, 1, Min(limit, Len(sorted)))))

\* check_service_health: each probe sits in a bare try/except
check_service_health(host) ==
    LET up == PyBool(host.kind = "ok")
    IN PyDict(<< <<PyStr("docker"), up>>, <<PyStr("qdrant"), up>>,
                 <<PyStr("postgresql"), up>>, <<PyStr("embeddings"), up>> >>)

(***************************************************************************)
(* The watchdog of system_monitor_mcp.py                                   *)
(***************************************************************************)
\* datetime.now().strftime('%Y-%m-%d %H:%M:%S') of the clock reading t
strftime(t) == "2025-01-01 00:00:0" \o ToString(t)

\* an alert printed without file=sys.stderr
alert_to_stdout(message, level, t) ==
    [file |-> "stdout",
     text |-> "[" \o strftime(t) \o "] " \o level \o ": " \o message]

\* alert_to_stderr: the line and the file print() writes it to
alert_to_stderr(message, level, t) ==
    [file |-> "stderr",
     text |-> "[" \o strftime(t) \o "] " \o level \o ": " \o message]

\* s.strip()
strip(s) ==
    LET inked == {i \in 1..Len(s) : ~IsSpace(SubSeq(s, i, i))}
        first == CHOOSE i \in inked : \A j \in inked : i <= j
        last == CHOOSE i \in inked : \A j \in inked : j <= i
    IN IF inked = {} THEN "" ELSE SubSeq(s, first, last)

\* s.replace(old, '')
RECURSIVE remove_all(_, _, _)
remove_all(s, old, i) ==
    IF i > Len(s) THEN ""
    ELSE IF i + Len(old) - 1 <= Len(s) /\ SubSeq(s, i, i + Len(old) - 1) = old
    THEN remove_all(s, old, i + Len(old))
    ELSE SubSeq(s, i, i) \o remove_all(s, old, i + 1)

endswith(s, c) == Len(s) >= Len(c) /\ SubSeq(s, Len(s) - Len(c) + 1, Len(s)) = c

\* a number with one decimal, kept in tenths: 85.0 is 850
Float(tenths) == [kind |-> "float", tenths |-> tenths]

Digits == <<"0", "1", "2", "3", "4", "5", "6", "7", "8", "9">>
IsDigit(c) == \E d \in 1..10 : Digits[d] = c
digit(c) == (CHOOSE d \in 1..10 : Digits[d] = c) - 1

\* int(s) of a run of digits
RECURSIVE digits_value(_, _)
digits_value(s, n) ==
    IF n = 0 THEN 0
    ELSE 10 * digits_value(s, n - 1) + digit(SubSeq(s, n, n))

\* float(s) for the readings vcgencmd prints, digits '.' digit; a ValueError
\* for a text that is no number
float(s) ==
    LET n == Len(s)
        whole == SubSeq(s, 1, n - 2)
    IN IF /\ n >= 3
          /\ SubSeq(s, n - 1, n - 1) = "."
          /\ \A i \in (1..(n - 2)) \cup {n} : IsDigit(SubSeq(s, i, i))
       THEN Return(Float(10 * digits_value(whole, n - 2) + digit(SubSeq(s, n, n))))
       ELSE Raise(Exc("ValueError",
                "could not convert string to float: '" \o s \o "'"))

\* f"{x:.1f}"
format_1f(x) == ToString(x.tenths \div 10) \o "." \o ToString(x.tenths % 10)

\* WATCHDOG_CONFIG[key] of a threshold
threshold(key) == float(dict_item(WATCHDOG_CONFIG, key).repr).value

\* what a dependency does when it is asked: answers that it is well (exit
\* status 0, HTTP 200), answers that it is not (another exit status, an HTTP
\* error), cannot be reached (the command is missing, the connection is
\* refused), or never answers
Behaviours == {"up", "down", "unreachable", "hangs"}

\* a blocking call with its timeout= argument (PyNone when it gives none) on
\* a dependency that behaves so: it returns, raises, or never comes back
blocking_call(behaviour, timeout) ==
    CASE behaviour = "up" -> [kind |-> "return", value |-> TRUE]
      [] behaviour = "down" -> [kind |-> "return", value |-> FALSE]
      [] behaviour = "unreachable" ->
            Raise(Exc("OSError", "[Errno 111] Connection refused"))
      [] OTHER ->
            IF timeout = PyNone THEN [kind |-> "blocked"]
            ELSE Raise(Exc("TimeoutExpired", "timed out after "
                                \o ToString(timeout.n) \o " seconds"))

\* the probes of check_service_health, in the order it runs them
ServiceProbes_without_timeout ==
    << [service |-> "docker", timeout |-> PyInt(5)],
       [service |-> "qdrant", timeout |-> PyInt(5)],
       [service |-> "postgresql", timeout |-> PyNone],
       [service |-> "embeddings", timeout |-> PyInt(5)] >>

ServiceProbes ==
    << [service |-> "docker", timeout |-> PyInt(5)],
       [service |-> "qdrant", timeout |-> PyInt(5)],
       [service |-> "postgresql", timeout |-> PyInt(5)],
       [service |-> "embeddings", timeout |-> PyInt(5)] >>

\* check_service_health with each dependency behaving as `services` says:
\* the services dict as <<name, healthy>> pairs, or blocked in a probe. Each
\* probe sits in a bare try/except that records False.
RECURSIVE probe_services(_, _)
probe_services(services, i) ==
    IF i > Len(ServiceProbes) THEN [blocked |-> FALSE, health |-> <<>>]
    ELSE LET probe == ServiceProbes[i]
             called == blocking_call(services[probe.service], probe.timeout)
             rest == probe_services(services, i + 1)
         IN IF called.kind = "blocked" THEN [blocked |-> TRUE, health |-> <<>>]
            ELSE [blocked |-> rest.blocked,
                  health |-> << <<probe.service,
                                  called.kind = "return" /\ called.value>> >>
                             \o rest.health]

\* the temperature reading of watchdog_check: vcgencmd run with `timeout`,
\* its output parsed; None when the command fails or prints no reading
measure_temp(vcgencmd, timeout) ==
    LET called == IF vcgencmd.kind = "ok"
                  THEN Return(vcgencmd.stdout)
                  ELSE blocking_call(vcgencmd.kind, timeout)
        temp_str == remove_all(remove_all(strip(called.value), "temp=", 1),
                               "'", 1)
        parsed == float(SubSeq(temp_str, 1, Len(temp_str) - 1))
    IN IF called.kind = "blocked" THEN [blocked |-> TRUE, celsius |-> PyNone]
       ELSE IF called.kind = "raise" THEN [blocked |-> FALSE, celsius |-> PyNone]
       ELSE IF endswith(temp_str, "C") /\ parsed.kind = "return"
       THEN [blocked |-> FALSE, celsius |-> parsed.value]
       ELSE [blocked |-> FALSE, celsius |-> PyNone]

\* the threshold tests with >= where the code has >
threshold_alerts_at_threshold(sample, temp_celsius, t) ==
    LET high(what, x, key, unit) ==
            IF x.tenths >= threshold(key).tenths
            THEN <<alert_to_stderr("High " \o what \o ": " \o format_1f(x)
                                    \o unit, "WARNING", t)>>
            ELSE <<>>
    IN high("CPU usage", sample.cpu, "cpu_threshold", "%")
       \o high("memory usage", sample.memory, "memory_threshold", "%")
       \o high("disk usage", sample.disk, "disk_threshold", "%")
       \o (IF temp_celsius # PyNone /\ temp_celsius.tenths # 0
           THEN high("temperature", temp_celsius, "temp_threshold", "°C")
           ELSE <<>>)

\* the alerts of the threshold tests of watchdog_check, in their order
threshold_alerts(sample, temp_celsius, t) ==
    LET high(what, x, key, unit) ==
            IF x.tenths > threshold(key).tenths
            THEN <<alert_to_stderr("High " \o what \o ": " \o format_1f(x)
                                    \o unit, "WARNING", t)>>
            ELSE <<>>
    IN high("CPU usage", sample.cpu, "cpu_threshold", "%")
       \o high("memory usage", sample.memory, "memory_threshold", "%")
       \o high("disk usage", sample.disk, "disk_threshold", "%")
       \o (IF temp_celsius # PyNone /\ temp_celsius.tenths # 0
           THEN high("temperature", temp_celsius, "temp_threshold", "°C")
           ELSE <<>>)

\* the alerts of the service loop of watchdog_check
RECURSIVE service_alerts(_, _, _)
service_alerts(health, i, t) ==
    IF i > Len(health) THEN <<>>
    ELSE (IF ~health[i][2]
          THEN <<alert_to_stderr("Service " \o health[i][1]
                        \o " is down or unreachable", "ERROR", t)>>
          ELSE <<>>) \o service_alerts(health, i + 1, t)

\* watchdog_check with `except Exception: pass`
watchdog_check_silent(sample, t) ==
    LET temp == measure_temp(sample.vcgencmd, PyInt(5))
        probed == probe_services(sample.services, 1)
        warned == threshold_alerts(sample, temp.celsius, t)
    IN IF sample.psutil.kind = "raises"
       THEN [blocked |-> FALSE, lines |-> <<>>]
       ELSE IF temp.blocked THEN [blocked |-> TRUE, lines |-> <<>>]
       ELSE IF probed.blocked THEN [blocked |-> TRUE, lines |-> warned]
       ELSE [blocked |-> FALSE,
             lines |-> warned \o service_alerts(probed.health, 1, t)]

\* watchdog_check on a host that answers with `sample`: the lines it prints,
\* and whether it came back at all
watchdog_check(sample, t) ==
    LET temp == measure_temp(sample.vcgencmd, PyInt(5))
        probed == probe_services(sample.services, 1)
        warned == threshold_alerts(sample, temp.celsius, t)
    IN IF sample.psutil.kind = "raises"
       THEN [blocked |-> FALSE,
             lines |-> <<alert_to_stderr("Watchdog check failed: "
                            \o exc_str(sample.psutil.exc), "ERROR", t)>>]
       ELSE IF temp.blocked THEN [blocked |-> TRUE, lines |-> <<>>]
       ELSE IF probed.blocked THEN [blocked |-> TRUE, lines |-> warned]
       ELSE [blocked |-> FALSE,
             lines |-> warned \o service_alerts(probed.health, 1, t)]

\* the test of the while loop of watchdog_loop, and what follows: the next
\* watchdog_check, or the farewell line and the end of the thread. The
\* function declares `global watchdog_running`: `running` is the flag as it
\* leaves it
watchdog_loop_test(running, t) ==
    IF running /\ WATCHDOG_ENABLED
    THEN [pc |-> "check", lines |-> <<>>, running |-> running]
    ELSE [pc |-> "exited", running |-> running,
          lines |-> <<alert_to_stderr("System watchdog stopped", "INFO", t)>>]

\* the start of watchdog_loop: the greeting line, then the first test
watchdog_loop_enter(running, t) ==
    LET tested == watchdog_loop_test(running, t)
    IN [pc |-> tested.pc, running |-> tested.running,
        lines |-> <<alert_to_stderr("System watchdog started", "INFO", t)>>
                  \o tested.lines]

\* system-monitor list_tools: the names, in declaration order
system_monitor_tools ==
    <<"get_system_status", "get_processes", "get_memory_details",
      "get_disk_usage", "get_network_connections", "start_watchdog",
      "stop_watchdog", "get_watchdog_status", "check_service_health">>

memory_details ==
    PyDict(<<
        <<PyStr("virtual_memory"),
          PyDict(<< <<PyStr("total"), PyInt(8192)>>,
                    <<PyStr("available"), PyInt(4096)>>,
                    <<PyStr("percent"), PyFloat("50.0")>>,
                    <<PyStr("used"), PyInt(4096)>>,
                    <<PyStr("free"), PyInt(1024)>>,
                    <<PyStr("active"), PyInt(2048)>>,
                    <<PyStr("inactive"), PyInt(512)>>,
                    <<PyStr("buffers"), PyInt(64)>>,
                    <<PyStr("cached"), PyInt(256)>>,
                    <<PyStr("shared"), PyNone>> >>)>>,
        <<PyStr("swap_memory"),
          PyDict(<< <<PyStr("total"), PyInt(100)>>, <<PyStr("used"), PyInt(0)>>,
                    <<PyStr("free"), PyInt(100)>>,
                    <<PyStr("percent"), PyFloat("0.0")>>,
                    <<PyStr("sin"), PyInt(0)>>, <<PyStr("sout"), PyInt(0)>> >>)>> >>)

disk_info ==
    PyDict(<< <<PyStr("device"), PyStr("/dev/mmcblk0p2")>>,
              <<PyStr("mountpoint"), PyStr("/")>>,
              <<PyStr("fstype"), PyStr("ext4")>>,
              <<PyStr("total_gb"), PyFloat("58.0")>>,
              <<PyStr("used_gb"), PyFloat("20.5")>>,
              <<PyStr("free_gb"), PyFloat("35.1")>>,
              <<PyStr("percent"), PyFloat("35.3")>> >>)

conn_info ==
    PyDict(<< <<PyStr("fd"), PyInt(3)>>,
              <<PyStr("family"), PyStr("AddressFamily.AF_INET")>>,
              <<PyStr("type"), PyStr("SocketKind.SOCK_STREAM")>>,
              <<PyStr("laddr"), PyStr("127.0.0.1:5432")>>,
              <<PyStr("raddr"), PyNone>>, <<PyStr("status"), PyStr("LISTEN")>>,
              <<PyStr("pid"), PyInt(7)>> >>)

\* system_monitor_mcp.call_tool. running/thread are the globals
\* watchdog_running/watchdog_thread; gives the outcome and the globals after
system_monitor_call_tool(name, arguments, host, alive, running, thread) ==
    LET same(out) == [did |-> Executed(out, name, <<>>),
                      running |-> running, thread |-> thread]
        dumped(v) == Text1(json_dumps(v, TRUE, FALSE).text)
        started == start_watchdog(running, thread)
        stopped == stop_watchdog(running, thread)
        answer(ok, yes, no) ==
            dumped(PyDict(<< <<PyStr("success"), PyBool(ok)>>,
                             <<PyStr("message"), PyStr(IF ok THEN yes ELSE no)>> >>))
        procs == get_processes(dict_get(arguments, "limit", PyInt(10)).n, host)
    IN CASE name = "get_system_status" -> same(dumped(get_system_status(host)))
         [] name = "get_processes" ->
                same(IF procs.kind = "raise" THEN procs ELSE dumped(procs.value))
         [] name = "get_memory_details" ->
                same(IF host.kind = "raises" THEN Raise(host.exc)
                     ELSE dumped(memory_details))
         [] name = "get_disk_usage" ->
                \* only a PermissionError of disk_usage skips the partition
                same(IF host.kind = "raises"
                     THEN IF host.exc.cls = "PermissionError"
                          THEN dumped(PyList(<<>>))
                          ELSE Raise(host.exc)
                     ELSE dumped(PyList(<<disk_info>>)))
         [] name = "get_network_connections" ->
                same(IF host.kind = "raises" THEN Raise(host.exc)
                     ELSE dumped(PyList(<<conn_info>>)))
         [] name = "start_watchdog" ->
                [did |-> Executed(answer(started.ret, "Watchdog started",
                                    "Watchdog already running or disabled"),
                                  name, <<>>),
                 running |-> started.running, thread |-> started.thread]
         [] name = "stop_watchdog" ->
                [did |-> Executed(answer(stopped.ret, "Watchdog stopped",
                                         "Watchdog was not running"),
                                  name, <<>>),
                 running |-> stopped.running, thread |-> stopped.thread]
         [] name = "get_watchdog_status" ->
                same(dumped(get_watchdog_status(running, thread, alive)))
         [] name = "check_service_health" ->
                same(dumped(check_service_health(host)))
         [] OTHER ->
                [did |-> Executed(Text1("Unknown tool: " \o name), "else", <<>>),
                 running |-> running, thread |-> thread]

(***************************************************************************)
(* postgres_mcp.py                                                         *)
(***************************************************************************)
\* what the database does for one invocation: refuses the connection,
\* fails the statement, answers it with rows (cursor.description is set), or
\* runs it without a result set (rowcount rows affected)
DbRefused == [kind |-> "refused", exc |-> Exc("PostgresError",
                "connection to server at \"localhost\" failed: Connection refused")]
DbError(msg) == [kind |-> "error", exc |-> Exc("PostgresError", msg)]
DbRows(rows) == [kind |-> "rows", rows |-> rows]
DbNoResult(rowcount) == [kind |-> "no_result", rowcount |-> rowcount]

\* postgres list_tools: the names, in declaration order
postgres_tools ==
    <<"postgres_query", "postgres_list_tables", "postgres_describe_table",
      "postgres_insert", "postgres_update", "postgres_delete">>

\* an execute_query whose error path leaves the connection open
execute_query_without_finally(query, db) ==
    LET err(e, ops) ==
            Did(Text1("Query error: " \o exc_str(e)), "", <<>>, ops, <<>>)
    IN IF db.kind = "refused" THEN err(db.exc, <<"connect">>)
       ELSE IF query.kind # "str" \/ db.kind = "error"
       THEN err(Exc("PostgresError", "failed"), <<"connect", "execute", "rollback">>)
       ELSE Did(Text1("ok"), "", <<>>, <<"connect", "execute", "close">>, <<>>)

\* postgres_mcp.execute_query: the answer and the calls made on the
\* connection. `query` is a Python value: None when the argument was absent
execute_query(query, db) ==
    LET err(e, ops) ==
            Did(Text1("Query error: " \o exc_str(e)), "", <<>>, ops, <<>>)
    IN IF db.kind = "refused" THEN err(db.exc, <<"connect">>)
       ELSE IF query.kind # "str"
       THEN err(Exc("TypeError", "argument 1 must be a string or unicode object"),
                <<"connect", "execute", "rollback", "close">>)
       ELSE IF db.kind = "error"
       THEN err(db.exc, <<"connect", "execute", "rollback", "close">>)
       ELSE IF db.kind = "rows"
       THEN Did(Text1(json_dumps(db.rows, TRUE, TRUE).text), "", <<>>,
                <<"connect", "execute", "fetchall", "close">>, <<>>)
       ELSE Did(Text1("Query executed successfully. Rows affected: "
                        \o ToString(db.rowcount)), "", <<>>,
                <<"connect", "execute", "commit", "close">>, <<>>)

\* x.keys() / x.values() of an argument: an AttributeError unless x is a dict
keys_of(x) ==
    IF x.kind = "dict" THEN Return(x)
    ELSE Raise(Exc("AttributeError", "'" \o ClassName(x)
                    \o "' object has no attribute 'keys'"))

\* ', '.join(f"{k} = %s" for k in d.keys()), with `sep` between them
RECURSIVE join_keys(_, _, _, _)
join_keys(d, i, suffix, sep) ==
    IF i > Len(d.items) THEN ""
    ELSE (IF i > 1 THEN sep ELSE "") \o py_str(d.items[i][1]) \o suffix
         \o join_keys(d, i + 1, suffix, sep)

RECURSIVE join_placeholders(_)
join_placeholders(n) ==
    IF n = 0 THEN "" ELSE IF n = 1 THEN "%s"
    ELSE "%s, " \o join_placeholders(n - 1)

\* postgres_mcp.call_tool
postgres_call_tool(name, arguments, db) ==
    LET arg(k) == dict_get(arguments, k, PyNone)
        table == py_str(arg("table"))
        data == keys_of(arg("data"))
        where == keys_of(arg("where"))
        ran(query) == [execute_query(PyStr(query), db) EXCEPT !.branch = name]
        \* except Exception as e: "Error: ..."
        caught(e) == Did(Text1("Error: " \o exc_str(e)), name, <<>>, <<>>, <<>>)
    IN CASE name = "postgres_query" ->
                [execute_query(arg("query"), db) EXCEPT !.branch = name]
         [] name = "postgres_list_tables" ->
                ran("SELECT table_name FROM information_schema.tables "
                    \o "WHERE table_schema = 'public' ORDER BY table_name")
         [] name = "postgres_describe_table" ->
                ran("SELECT column_name, data_type, character_maximum_length, "
                    \o "is_nullable, column_default FROM information_schema.columns "
                    \o "WHERE table_schema = 'public' AND table_name = %s "
                    \o "ORDER BY ordinal_position")
         [] name = "postgres_insert" ->
                IF data.kind = "raise" THEN caught(data.exc)
                ELSE ran("INSERT INTO " \o table \o " ("
                        \o join_keys(data.value, 1, "", ", ") \o ") VALUES ("
                        \o join_placeholders(Len(data.value.items))
                        \o ") RETURNING *")
         [] name = "postgres_update" ->
                IF data.kind = "raise" THEN caught(data.exc)
                ELSE IF where.kind = "raise" THEN caught(where.exc)
                ELSE ran("UPDATE " \o table \o " SET "
                        \o join_keys(data.value, 1, " = %s", ", ") \o " WHERE "
                        \o join_keys(where.value, 1, " = %s", " AND ")
                        \o " RETURNING *")
         [] name = "postgres_delete" ->
                IF where.kind = "raise" THEN caught(where.exc)
                ELSE ran("DELETE FROM " \o table \o " WHERE "
                        \o join_keys(where.value, 1, " = %s", " AND ")
                        \o " RETURNING *")
         [] OTHER ->
                Did(Text1("Unknown tool: " \o name), "else", <<>>, <<>>, <<>>)

(***************************************************************************)
(* pgvector_memory_mcp.py                                                  *)
(***************************************************************************)
\* what the embeddings service does: gives a vector, gives an empty one, or
\* the request fails
EmbedOk == [kind |-> "ok", vector |-> <<"0.1", "0.2">>]
EmbedEmpty == [kind |-> "ok", vector |-> <<>>]
EmbedFails(e) == [kind |-> "fails", exc |-> e]

\* memory list_tools: the names, in declaration order
memory_tools ==
    <<"store_memory", "search_memory", "list_memory_types", "memory_stats">>

\* get_embedding: the vector, [] on any failure, which it reports with
\* print() on standard output
get_embedding(embed) ==
    IF embed.kind = "ok" THEN [vector |-> embed.vector, stdout |-> <<>>]
    ELSE [vector |-> <<>>,
          stdout |-> <<"Error getting embedding: " \o exc_str(embed.exc)>>]

\* one line of the search_memory listing; the row carries its similarity,
\* round(1 - distance, 4), as the database's distance decides it
memory_line(row) ==
    LET text == py_str(dict_item(row, "text"))
    IN "- [" \o py_str(dict_item(row, "type")) \o "] "
       \o SubSeq(text, 1, Min(100, Len(text)))
       \o (IF Len(text) > 100 THEN "..." ELSE "")
       \o " (similarity: " \o py_str(dict_item(row, "similarity")) \o ")"

RECURSIVE concat_lines(_, _)
concat_lines(lines, i) ==
    IF i > Len(lines) THEN "" ELSE lines[i] \o concat_lines(lines, i + 1)

RECURSIVE join_lines(_, _)
join_lines(lines, i) ==
    IF i > Len(lines) THEN ""
    ELSE (IF i > 1 THEN "\n" ELSE "") \o lines[i] \o join_lines(lines, i + 1)

\* the part of a memory tool after `conn = await get_db_connection()`: the
\* try / except Exception / finally: await conn.close()
memory_db_part(name, db, t, stdout) ==
    LET did(text, ops) == Did(Text1(text), name, <<>>, ops, stdout)
        rows == db.rows.items
    IN IF db.kind = "refused"
       THEN Did(Raise(db.exc), name, <<>>, <<"connect">>, stdout)
       ELSE IF db.kind = "error"
       THEN did((CASE name = "store_memory" -> "Error storing memory: "
                   [] name = "search_memory" -> "Error searching memory: "
                   [] name = "list_memory_types" -> "Error listing memory types: "
                   [] OTHER -> "Error getting memory stats: ")
                \o exc_str(db.exc),
                <<"connect", "execute", "close">>)
       ELSE IF name = "store_memory"
       THEN did("Memory stored successfully with ID: " \o ToString(t) \o "000000",
                <<"connect", "execute", "close">>)
       ELSE IF db.kind = "no_result" \/ rows = <<>>
               \/ (name = "memory_stats"
                     /\ dict_item(rows[1], "total_vectors") = PyInt(0))
       THEN did(CASE name = "search_memory" -> "No relevant memories found"
                  [] name = "list_memory_types" -> "No memory types found"
                  [] OTHER -> "Memory collection is empty",
                <<"connect", "execute", "close">>)
       ELSE IF name = "search_memory"
       THEN did("Found " \o ToString(Len(rows)) \o " relevant memories:\n\n"
                \o join_lines([i \in 1..Len(rows) |-> memory_line(rows[i])], 1),
                <<"connect", "execute", "close">>)
       ELSE IF name = "list_memory_types"
       THEN did("Memory types:\n\n"
                \o concat_lines([i \in 1..Len(rows) |->
                        "- " \o py_str(dict_item(rows[i], "type")) \o ": "
                        \o py_str(dict_item(rows[i], "count")) \o " entries\n"], 1),
                <<"connect", "execute", "close">>)
       ELSE did("Memory Statistics:\n            \n- Total vectors: "
                \o py_str(dict_item(rows[1], "total_vectors"))
                \o "\n- Unique types: "
                \o py_str(dict_item(rows[1], "unique_types"))
                \o "\n- Unique categories: "
                \o py_str(dict_item(rows[1], "unique_categories"))
                \o "\n- Oldest entry: "
                \o py_str(dict_item(rows[1], "oldest_entry"))
                \o "\n- Newest entry: "
                \o py_str(dict_item(rows[1], "newest_entry"))
                \o "\n- Collection name: claude_os_system"
                \o "\n- Vector dimension: 384\n",
                <<"connect", "execute", "close">>)

\* a call_tool that opens its connection before it asks for the embedding
memory_call_tool_connecting_first(name, arguments, embed, db, t) ==
    IF name \notin {memory_tools[i] : i \in 1..Len(memory_tools)}
    THEN Did(Text1("Unknown tool: " \o name), "else", <<>>, <<>>, <<>>)
    ELSE IF first_missing(arguments, IF name = "store_memory"
                                     THEN <<"text", "type">>
                                     ELSE IF name = "search_memory"
                                     THEN <<"query">> ELSE <<>>, 1) # ""
    THEN Did(Raise(Exc("KeyError", "text")), name, <<>>, <<>>, <<>>)
    ELSE IF name \in {"store_memory", "search_memory"}
            /\ get_embedding(embed).vector = <<>>
    THEN Did(Text1(IF name = "store_memory"
                   THEN "Error: Failed to generate embedding"
                   ELSE "Error: Failed to generate query embedding"),
             name, <<HttpRequest("POST", "/embed")>>, <<"connect", "close">>,
             get_embedding(embed).stdout)
    ELSE memory_db_part(name, db, t, <<>>)

\* pgvector_memory_mcp.call_tool
memory_call_tool(name, arguments, embed, db, t) ==
    LET needs == CASE name = "store_memory" -> <<"text", "type">>
                   [] name = "search_memory" -> <<"query">>
                   [] OTHER -> <<>>
        missing == first_missing(arguments, needs, 1)
        embedding == get_embedding(embed)
    IN IF name \notin {memory_tools[i] : i \in 1..Len(memory_tools)}
       THEN Did(Text1("Unknown tool: " \o name), "else", <<>>, <<>>, <<>>)
       ELSE IF missing # ""
       THEN Did(Raise(Exc("KeyError", missing)), name, <<>>, <<>>, <<>>)
       ELSE IF name \in {"store_memory", "search_memory"}
       THEN IF embedding.vector = <<>>
            THEN Did(Text1(IF name = "store_memory"
                           THEN "Error: Failed to generate embedding"
                           ELSE "Error: Failed to generate query embedding"),
                     name, <<HttpRequest("POST", "/embed")>>, <<>>, embedding.stdout)
            ELSE [memory_db_part(name, db, t, embedding.stdout)
                    EXCEPT !.http = <<HttpRequest("POST", "/embed")>>]
       ELSE memory_db_part(name, db, t, <<>>)

(***************************************************************************)
(* node_red_mcp_enhanced.py                                                *)
(***************************************************************************)
\* what Node-RED does with one request: answers with a JSON body, answers an
\* error status, or the request fails
NrOk(body) == [kind |-> "ok", status |-> 200, body |-> body]
NrStatus(status) == [kind |-> "status", status |-> status, body |-> PyNone]
NrFails(e) == [kind |-> "fails", exc |-> e]

\* node-red list_tools: the names, in declaration order
node_red_tools ==
    <<"node_red_get_flows", "node_red_search_nodes",
      "node_red_get_node_details", "node_red_inject_trigger",
      "node_red_get_context", "node_red_analyze_flows">>

nr_error(text) == PyDict(<< <<PyStr("error"), PyStr(text)>> >>)

\* the exception of response.raise_for_status() or of the failed request
nr_exception(http) ==
    IF http.kind = "fails" THEN http.exc
    ELSE Exc("HTTPError", "Client error '" \o ToString(http.status) \o "'")

\* get_flows / get_context: the body, or {"error": str(e)}
nr_get(http) ==
    IF http.kind = "ok" THEN http.body ELSE nr_error(exc_str(nr_exception(http)))

\* a value's .get(key, default): an AttributeError unless it is a dict
nr_attr_error(v) ==
    Exc("AttributeError", "'" \o ClassName(v) \o "' object has no attribute 'get'")

\* sub in s
RECURSIVE contains(_, _, _)
contains(s, sub, i) ==
    IF i + Len(sub) - 1 > Len(s) THEN FALSE
    ELSE IF SubSeq(s, i, i + Len(sub) - 1) = sub THEN TRUE
    ELSE contains(s, sub, i + 1)

\* the label of the tab a node sits on
RECURSIVE flow_label(_, _, _, _)
flow_label(flows, node, i, default) ==
    IF i > Len(flows) THEN PyStr(default)
    ELSE IF /\ dict_get(flows[i], "type", PyNone) = PyStr("tab")
            /\ dict_get(flows[i], "id", PyNone) = dict_get(node, "z", PyNone)
    THEN dict_get(flows[i], "label", PyStr("Unnamed Flow"))
    ELSE flow_label(flows, node, i + 1, default)

\* search_term in the node's name, type, info, func, url or query (the
\* model's texts are lower case, as .lower() leaves them)
nr_matches(node, term) ==
    \/ \E k \in {"name", "type", "info"} :
            contains(py_str(dict_get(node, k, PyStr(""))), term, 1)
    \/ \E k \in {"func", "url", "query"} :
            contains(py_str(dict_get(node, k, PyStr(""))), term, 1)

\* the loop of search_nodes over the nodes i..: the results, or the
\* exception of a node that is no dict
RECURSIVE nr_search(_, _, _)
nr_search(flows, term, i) ==
    IF i > Len(flows) THEN Return(<<>>)
    ELSE IF flows[i].kind # "dict" THEN Raise(nr_attr_error(flows[i]))
    ELSE LET node == flows[i]
             rest == nr_search(flows, term, i + 1)
             hit == PyDict(<<
                <<PyStr("id"), dict_get(node, "id", PyNone)>>,
                <<PyStr("type"), dict_get(node, "type", PyNone)>>,
                <<PyStr("name"), dict_get(node, "name", PyStr(""))>>,
                <<PyStr("flow"), flow_label(flows, node, 1, "Unknown")>>,
                <<PyStr("flow_id"), dict_get(node, "z", PyNone)>>,
                <<PyStr("x"), dict_get(node, "x", PyNone)>>,
                <<PyStr("y"), dict_get(node, "y", PyNone)>> >>)
         IN IF rest.kind = "raise" THEN rest
            ELSE IF dict_get(node, "type", PyNone) = PyStr("tab")
                    \/ ~nr_matches(node, term)
            THEN rest
            ELSE Return(<<hit>> \o rest.value)

\* iterating `flows`: the items of a list, the keys of a dict
nr_iter(flows) ==
    IF flows.kind = "list" THEN flows.items
    ELSE [i \in 1..Len(flows.items) |-> flows.items[i][1]]

\* search_nodes
search_nodes(search_term, http) ==
    LET flows == nr_get(http)
        found == nr_search(nr_iter(flows), py_str(search_term), 1)
    IN IF flows.kind = "dict" /\ dict_has(flows, "error") THEN flows
       ELSE IF search_term.kind # "str"
       THEN nr_error("Search failed: '" \o ClassName(search_term)
                        \o "' object has no attribute 'lower'")
       ELSE IF found.kind = "raise"
       THEN nr_error("Search failed: " \o exc_str(found.exc))
       ELSE PyDict(<< <<PyStr("search_term"), search_term>>,
                      <<PyStr("count"), PyInt(Len(found.value))>>,
                      <<PyStr("results"), PyList(found.value)>> >>)

\* the loop of get_node_details over the nodes i..
RECURSIVE nr_find(_, _, _)
nr_find(flows, node_id, i) ==
    IF i > Len(flows)
    THEN Return(nr_error("Node " \o py_str(node_id) \o " not found"))
    ELSE IF flows[i].kind # "dict" THEN Raise(nr_attr_error(flows[i]))
    ELSE IF dict_get(flows[i], "id", PyNone) # node_id
    THEN nr_find(flows, node_id, i + 1)
    ELSE IF dict_get(flows[i], "z", PyNone) \in {PyNone, PyStr("")}
            \/ flow_label(flows, flows[i], 1, "") = PyStr("")
    THEN Return(flows[i])
    ELSE Return(PyDict(flows[i].items \o
            << <<PyStr("flow_name"), flow_label(flows, flows[i], 1, "")>> >>))

\* get_node_details
get_node_details(node_id, http) ==
    LET flows == nr_get(http)
        found == nr_find(nr_iter(flows), node_id, 1)
    IN IF flows.kind = "dict" /\ dict_has(flows, "error") THEN flows
       ELSE IF found.kind = "raise"
       THEN nr_error("Failed to get node details: " \o exc_str(found.exc))
       ELSE found.value

\* inject_trigger: any status counts, only a failed request is an error
inject_trigger(node_id, http) ==
    IF http.kind = "fails" THEN nr_error(exc_str(http.exc))
    ELSE PyDict(<< <<PyStr("triggered"), node_id>>,
                   <<PyStr("status"), PyInt(http.status)>> >>)

\* len([n for n in flows if n.get(key) == value]), over the items i..
RECURSIVE nr_count(_, _, _, _)
nr_count(flows, i, key, value) ==
    IF i > Len(flows) THEN 0
    ELSE (IF dict_get(flows[i], key, PyNone) = value THEN 1 ELSE 0)
         + nr_count(flows, i + 1, key, value)

IsTab(item) == dict_get(item, "type", PyNone) = PyStr("tab")

\* flows_info of analyze_flows, over the items i..
RECURSIVE nr_flows_info(_, _)
nr_flows_info(flows, i) ==
    IF i > Len(flows) THEN <<>>
    ELSE (IF IsTab(flows[i])
          THEN <<PyDict(<<
                <<PyStr("id"), dict_get(flows[i], "id", PyNone)>>,
                <<PyStr("name"), dict_get(flows[i], "label", PyStr("Unnamed"))>>,
                <<PyStr("disabled"), dict_get(flows[i], "disabled", PyBool(FALSE))>>,
                <<PyStr("node_count"),
                  PyInt(nr_count(flows, 1, "z", dict_get(flows[i], "id", PyNone)))>>
                >>)>>
          ELSE <<>>) \o nr_flows_info(flows, i + 1)

\* node_types of analyze_flows: each type of a node that is no tab, at its
\* first node, with the number of nodes of that type
RECURSIVE nr_node_types(_, _)
nr_node_types(flows, i) ==
    IF i > Len(flows) THEN <<>>
    ELSE LET type == dict_get(flows[i], "type", PyStr("unknown"))
             first == \A j \in 1..(i - 1) :
                        IsTab(flows[j])
                        \/ dict_get(flows[j], "type", PyStr("unknown")) # type
             count == Cardinality({j \in 1..Len(flows) :
                        /\ ~IsTab(flows[j])
                        /\ dict_get(flows[j], "type", PyStr("unknown")) = type})
         IN (IF ~IsTab(flows[i]) /\ first THEN << <<type, PyInt(count)>> >>
             ELSE <<>>) \o nr_node_types(flows, i + 1)

\* analyze_flows
analyze_flows(http) ==
    LET flows == nr_get(http)
        items == nr_iter(flows)
        tabs == Cardinality({i \in 1..Len(items) : IsTab(items[i])})
    IN IF flows.kind = "dict" /\ dict_has(flows, "error") THEN flows
       ELSE IF \E i \in 1..Len(items) : items[i].kind # "dict"
       THEN nr_error("Analysis failed: " \o exc_str(nr_attr_error(
                items[CHOOSE i \in 1..Len(items) : items[i].kind # "dict"])))
       ELSE PyDict(<< <<PyStr("flow_count"), PyInt(tabs)>>,
                      <<PyStr("node_count"), PyInt(Len(items) - tabs)>>,
                      <<PyStr("node_types"), PyDict(nr_node_types(items, 1))>>,
                      <<PyStr("flows"), PyList(nr_flows_info(items, 1))>> >>)

\* node_red_mcp_enhanced.call_tool
node_red_call_tool(name, arguments, http) ==
    LET needs == CASE name = "node_red_search_nodes" -> <<"search_term">>
                   [] name \in {"node_red_get_node_details",
                                "node_red_inject_trigger"} -> <<"node_id">>
                   [] name = "node_red_get_context" -> <<"scope">>
                   [] OTHER -> <<>>
        missing == first_missing(arguments, needs, 1)
        arg(k) == dict_get(arguments, k, PyNone)
        result ==
            CASE name = "node_red_get_flows" -> nr_get(http)
              [] name = "node_red_search_nodes" ->
                    search_nodes(arg("search_term"), http)
              [] name = "node_red_get_node_details" ->
                    get_node_details(arg("node_id"), http)
              [] name = "node_red_inject_trigger" ->
                    inject_trigger(arg("node_id"), http)
              [] name = "node_red_get_context" -> nr_get(http)
              [] name = "node_red_analyze_flows" -> analyze_flows(http)
              [] OTHER -> nr_error("Unknown tool: " \o name)
        known == name \in {node_red_tools[i] : i \in 1..Len(node_red_tools)}
        sent == IF known THEN <<HttpRequest(
                        IF name = "node_red_inject_trigger" THEN "POST" ELSE "GET",
                        CASE name = "node_red_inject_trigger" ->
                                "/inject/" \o py_str(arg("node_id"))
                          [] name = "node_red_get_context" ->
                                "/context/" \o py_str(arg("scope"))
                                \o (IF dict_has(arguments, "key")
                                    THEN "/" \o py_str(arg("key")) ELSE "")
                          [] name = "node_red_get_flows" /\ dict_has(arguments, "flow_id") ->
                                "/flows/" \o py_str(arg("flow_id"))
                          [] OTHER -> "/flows")>>
                ELSE <<>>
        dumped == json_dumps(result, TRUE, FALSE)
        \* except Exception as e: json.dumps({"error": str(e)}), no indent
        caught(e) == Text1(json_dumps(nr_error(exc_str(e)), FALSE, FALSE).text)
    IN IF known /\ missing # ""
       THEN Did(caught(Exc("KeyError", missing)), name, <<>>, <<>>, <<>>)
       ELSE IF ~dumped.ok
       THEN Did(caught(dumped.exc), IF known THEN name ELSE "else", sent, <<>>, <<>>)
       ELSE Did(Text1(dumped.text), IF known THEN name ELSE "else", sent, <<>>, <<>>)

(***************************************************************************)
(* The servers as state machines. One process runs one server; `process`   *)
(* says which. A tool call is one step: the dispatch loop serves one       *)
(* request at a time.                                                      *)
(***************************************************************************)
VARIABLES
    process,            \* the server this process runs
    phase,              \* "starting" until main() serves requests
    self,               \* the BaseMCPServer object: name, version, base_url
    requires_mimeType,  \* the installed mcp SDK requires ImageContent.mimeType
    now,                \* the clock
    calls,              \* tool calls served so far
    failures,           \* how many of them failed inside the handler
    request,            \* the last call: name, arguments, time
    world,              \* what the collaborators did during the last call
    did,                \* what the tool did during the last call
    response,           \* what the last call gave its caller
    pending,            \* the call the dispatch loop is blocked in, if any
    failed,             \* the last call went through the except branch
    stderr,             \* the lines the last step wrote on standard error
    stdout,             \* the lines the last step printed on standard output
    watchdog_running,   \* system monitor: the global run flag
    watchdog_thread,    \* system monitor: the global thread handle, 0 is None
    pollers,            \* system monitor: the threads running watchdog_loop
    polled,             \* system monitor: what the host answered, when the
                        \* last step was a watchdog_check
    listing,            \* what get_tools did and what handle_list_tools
                        \* gave, when the last step was a list_tools request
    environ             \* the credentials os.environ holds, the .env file
                        \* read

vars == <<process, phase, self, requires_mimeType, now, calls, failures,
          request, world, did, response, pending, failed, stderr, stdout,
          watchdog_running, watchdog_thread, pollers, polled, listing,
          environ>>

\* the bounds of the model
MaxCalls == 2
MaxClock == 1

BaseProcesses == {"base", "example", "github"}
StandaloneProcesses == {"system-monitor", "postgres", "memory", "node-red"}
Processes == BaseProcesses \cup StandaloneProcesses

\* the object BaseMCPServer.__init__ / GitHubMCPServer.__init__ leave
NewServer(p) ==
    [name |-> p, version |-> "1.0.0",
     base_url |-> IF p = "github" THEN "https://api.github.com" ELSE ""]

Dict1(k, v) == PyDict(<< <<PyStr(k), v>> >>)
NoArguments == PyDict(<<>>)

(***************************************************************************)
(* The inputs: tool names, arguments, and what the collaborators do        *)
(***************************************************************************)
Range(seq) == {seq[i] : i \in 1..Len(seq)}

\* the tools a server lists
ListedTools(p) ==
    CASE p = "base" -> {"tool"}
      [] p = "example" -> Range(example_get_tools)
      [] p = "github" -> Range(github_get_tools)
      [] p = "system-monitor" -> Range(system_monitor_tools)
      [] p = "postgres" -> Range(postgres_tools)
      [] p = "memory" -> Range(memory_tools)
      [] OTHER -> Range(node_red_tools)

\* the arguments a tool's inputSchema declares required
RequiredArguments(name) ==
    CASE name = "echo" -> {"message"}
      [] name \in {"github_get_repo", "github_list_issues"} -> {"owner", "repo"}
      [] name = "github_create_repo" -> {"name"}
      [] name = "github_create_issue" -> {"owner", "repo", "title"}
      [] name = "github_create_pr" -> {"owner", "repo", "title", "head"}
      [] name = "postgres_query" -> {"query"}
      [] name = "postgres_describe_table" -> {"table_name"}
      [] name = "postgres_insert" -> {"table", "data"}
      [] name = "postgres_update" -> {"table", "data", "where"}
      [] name = "postgres_delete" -> {"table", "where"}
      [] name = "store_memory" -> {"text", "type"}
      [] name = "search_memory" -> {"query"}
      [] name = "node_red_search_nodes" -> {"search_term"}
      [] name \in {"node_red_get_node_details", "node_red_inject_trigger"} ->
            {"node_id"}
      [] name = "node_red_get_context" -> {"scope"}
      [] OTHER -> {}

\* a call that fills every required argument of each server's tools
FullArguments(p) ==
    CASE p \in {"base", "example"} -> Dict1("message", PyStr("hi"))
      [] p = "github" ->
            PyDict(<< <<PyStr("owner"), PyStr("octo")>>,
                      <<PyStr("repo"), PyStr("pi")>>,
                      <<PyStr("name"), PyStr("pi")>>,
                      <<PyStr("title"), PyStr("t")>>,
                      <<PyStr("head"), PyStr("dev")>> >>)
      [] p = "postgres" ->
            PyDict(<< <<PyStr("query"), PyStr("SELECT 1")>>,
                      <<PyStr("table_name"), PyStr("notes")>>,
                      <<PyStr("table"), PyStr("notes")>>,
                      <<PyStr("data"), Dict1("body", PyStr("x"))>>,
                      <<PyStr("where"), Dict1("id", PyInt(1))>> >>)
      [] p = "memory" ->
            PyDict(<< <<PyStr("text"), PyStr("the pi has 8 GB")>>,
                      <<PyStr("type"), PyStr("hardware")>>,
                      <<PyStr("query"), PyStr("memory size")>> >>)
      [] p = "node-red" ->
            PyDict(<< <<PyStr("search_term"), PyStr("inject")>>,
                      <<PyStr("node_id"), PyStr("n1")>>,
                      <<PyStr("scope"), PyStr("global")>> >>)
      [] OTHER -> NoArguments

\* arguments as a caller of handle_call_tool may pass them without the
\* transport: a value json cannot write
UnserializableArguments ==
    Dict1("message", PyObject("datetime", "2025-01-01 00:00:00"))

\* whether json.loads can have produced the value (what the transport
\* delivers as `arguments`)
RECURSIVE IsJson(_)
IsJson(v) ==
    CASE v.kind \in {"str", "int", "float", "bool", "None"} -> TRUE
      [] v.kind = "list" -> \A i \in 1..Len(v.items) : IsJson(v.items[i])
      [] v.kind = "dict" ->
            \A i \in 1..Len(v.items) :
                v.items[i][1].kind = "str" /\ IsJson(v.items[i][2])
      [] OTHER -> FALSE

\* the calls tried on a server: <<name, arguments>>
Requests(p) ==
    ({n \in ListedTools(p) \cup {"nonexistent"} : TRUE}
        \X {FullArguments(p), NoArguments})
    \cup (IF p \in {"base", "example"}
          THEN {<<"echo", UnserializableArguments>>,
                <<"nonexistent", UnserializableArguments>>}
          ELSE {})

\* what execute_tool of a subclass of BaseMCPServer may return
HandlerResults ==
    { PyStr("Echo: hi"), PyStr(""), PyBytes("PNG"), PyNone, PyInt(7),
      PyDict(<<>>), PyList(<<>>),
      PyDict(<< <<PyStr("a"), PyInt(1)>>,
                <<PyStr("b"), PyList(<<PyInt(1), PyInt(2)>>)>> >>),
      PyList(<<TextContent("x")>>),
      PyList(<<TextContent("x"), ImageContent("AAAA", "image/png")>>),
      PyList(<<TextContent("x"), PyInt(1)>>),
      PyList(<<PyInt(1), PyStr("two")>>),
      PyTuple(<<TextContent("x")>>),
      Dict1("when", PyObject("datetime", "2025-01-01 00:00:00")),
      Dict1("q", PyStr("say \"hi\"")),
      PyDict(<< <<PyInt(1), PyStr("x")>> >>),
      PyList(<<PyList(<<PyInt(1)>>), Dict1("k", PyNone)>>),
      PyList(<<PyBytes("PNG")>>),
      \* a mapping with a tuple key, a list that holds itself
      PyDict(<< <<PyTuple(<<PyInt(1), PyInt(2)>>), PyStr("x")>> >>),
      PyList(<<PyInt(1), PyBackRef>>) }

\* what it may raise
HandlerFailures ==
    { Exc("ValueError", "Unknown tool: tool"), Exc("KeyError", "owner"),
      Exc("Exception", "GitHub API error: Not Found"),
      Exc("RuntimeError", "boom \"quoted\"") }

\* a GitHub object with every key the tools read, one without them
GitHubObject ==
    PyDict(<< <<PyStr("name"), PyStr("pi")>>,
              <<PyStr("full_name"), PyStr("octo/pi")>>,
              <<PyStr("private"), PyBool(FALSE)>>,
              <<PyStr("description"), PyNone>>,
              <<PyStr("html_url"), PyStr("https://github.com/octo/pi")>>,
              <<PyStr("clone_url"), PyStr("https://github.com/octo/pi.git")>>,
              <<PyStr("ssh_url"), PyStr("git@github.com:octo/pi.git")>>,
              <<PyStr("created_at"), PyStr("2025-01-01T00:00:00Z")>>,
              <<PyStr("updated_at"), PyStr("2025-01-02T00:00:00Z")>>,
              <<PyStr("stargazers_count"), PyInt(3)>>,
              <<PyStr("forks_count"), PyInt(0)>>,
              <<PyStr("open_issues_count"), PyInt(1)>>,
              <<PyStr("default_branch"), PyStr("main")>>,
              <<PyStr("number"), PyInt(5)>>, <<PyStr("title"), PyStr("t")>>,
              <<PyStr("state"), PyStr("open")>>,
              <<PyStr("user"), Dict1("login", PyStr("octo"))>>,
              <<PyStr("labels"), PyList(<<Dict1("name", PyStr("bug"))>>)>>,
              <<PyStr("login"), PyStr("octo")>>,
              <<PyStr("public_repos"), PyInt(2)>>,
              <<PyStr("followers"), PyInt(1)>>,
              <<PyStr("following"), PyInt(0)>> >>)

GitHubPullRequest ==
    PyDict(GitHubObject.items \o << <<PyStr("pull_request"), PyDict(<<>>)>> >>)

GitHubAnswers ==
    { HttpOk(GitHubObject),
      HttpOk(PyList(<<GitHubObject, GitHubPullRequest>>)),
      HttpOk(Dict1("message", PyStr("unexpected"))),
      HttpNoContent,
      HttpStatusError(404, "Not Found", Dict1("message", PyStr("Not Found"))),
      HttpStatusError(422, "Unprocessable Entity",
                      Dict1("message", PyStr("Validation Failed"))),
      HttpStatusError(502, "Bad Gateway", PyNone),
      HttpConnectionError }

\* the answers tried on a call: every one when the call carries the full
\* arguments, the well-formed ones when it carries none
GitHubAnswersTo(arguments) ==
    IF arguments = NoArguments
    THEN {HttpOk(GitHubObject), HttpOk(PyList(<<GitHubObject, GitHubPullRequest>>))}
    ELSE GitHubAnswers

HostAnswers ==
    { HostOk, HostNoneCpu,
      HostRaises(Exc("AccessDenied", "psutil.AccessDenied (pid=1)")),
      HostRaises(Exc("PermissionError", "[Errno 13] Permission denied: '/boot'")),
      HostRaises(Exc("OSError", "[Errno 5] Input/output error")) }

\* the answers tried on a call of a tool: those its psutil calls can give;
\* the tools that sample nothing are called on a quiet host
HostAnswersTo(name) ==
    CASE name \in {"get_system_status", "get_memory_details"} ->
            {HostOk, HostRaises(Exc("OSError", "[Errno 5] Input/output error"))}
      [] name = "get_processes" ->
            {HostOk, HostNoneCpu,
             HostRaises(Exc("AccessDenied", "psutil.AccessDenied (pid=1)"))}
      [] name = "get_disk_usage" ->
            {h \in HostAnswers : h.kind # "none_cpu"}
      [] name = "get_network_connections" ->
            {HostOk, HostRaises(Exc("AccessDenied", "psutil.AccessDenied (pid=1)"))}
      [] name = "check_service_health" ->
            {HostOk, HostRaises(Exc("OSError", "[Errno 5] Input/output error"))}
      [] OTHER -> {HostOk}

\* what the host answers to one watchdog_check: the psutil samples, the
\* output of vcgencmd, and how each probed service behaves
Sample(cpu, memory, disk, vcgencmd, services) ==
    [psutil |-> HostOk, cpu |-> Float(cpu), memory |-> Float(memory),
     disk |-> Float(disk), vcgencmd |-> vcgencmd, services |-> services]

Vcgencmd(out) == [kind |-> "ok", stdout |-> out]

AllServices(b) ==
    [docker |-> b, qdrant |-> b, postgresql |-> b, embeddings |-> b]

QuietSample ==
    Sample(800, 500, 400, Vcgencmd("temp=48.3'C\n"), AllServices("up"))

PollSamples ==
    { QuietSample,
      \* every metric exactly at its threshold
      Sample(850, 800, 900, Vcgencmd("temp=70.0'C\n"), AllServices("up")),
      [QuietSample EXCEPT !.cpu = Float(900)],
      [QuietSample EXCEPT !.memory = Float(801)],
      [QuietSample EXCEPT !.vcgencmd = Vcgencmd("temp=71.5'C\n")],
      [QuietSample EXCEPT !.vcgencmd = Vcgencmd("")],
      [QuietSample EXCEPT !.vcgencmd = [kind |-> "unreachable"]],
      [QuietSample EXCEPT !.vcgencmd = [kind |-> "hangs"]],
      [QuietSample EXCEPT !.services.qdrant = "down"],
      [QuietSample EXCEPT !.services.postgresql = "hangs"],
      [QuietSample EXCEPT !.services = AllServices("unreachable")],
      [QuietSample EXCEPT !.psutil =
            HostRaises(Exc("OSError", "[Errno 5] Input/output error"))],
      Sample(999, 955, 1000, Vcgencmd("temp=85.0'C\n"), AllServices("hangs")) }

\* the threads after a call that took the run flag from `before` to `after`:
\* a stop_watchdog() on a set flag is pending for every thread still running
Told(threads, before, after) ==
    [t \in 1..Len(threads) |->
        IF before /\ ~after /\ threads[t].pc \notin {"exited", "blocked"}
        THEN [threads[t] EXCEPT !.stop_pending = TRUE]
        ELSE threads[t]]

MemoryRow ==
    PyDict(<< <<PyStr("type"), PyStr("hardware")>>,
              <<PyStr("text"), PyStr("the pi has 8 GB")>>,
              <<PyStr("similarity"), PyFloat("0.9134")>>,
              <<PyStr("count"), PyInt(1)>>,
              <<PyStr("total_vectors"), PyInt(1)>>,
              <<PyStr("unique_types"), PyInt(1)>>,
              <<PyStr("unique_categories"), PyInt(1)>>,
              <<PyStr("oldest_entry"), PyStr("2025-01-01 00:00:00")>>,
              <<PyStr("newest_entry"), PyStr("2025-01-01 00:00:00")>> >>)

\* the row memory_stats reads from an empty table
EmptyStatsRow ==
    PyDict(MemoryRow.items \o << <<PyStr("total_vectors"), PyInt(0)>> >>)

DbAnswers ==
    { DbRefused, DbError("relation \"notes\" does not exist"),
      DbRows(PyList(<<MemoryRow>>)),
      DbRows(PyList(<<EmptyStatsRow>>)),
      DbRows(PyList(<<>>)), DbNoResult(1) }

EmbedAnswers ==
    { EmbedOk, EmbedEmpty,
      EmbedFails(Exc("ConnectionRefusedError", "All connection attempts failed")) }

NodeRedFlows ==
    PyList(<< PyDict(<< <<PyStr("id"), PyStr("f1")>>,
                        <<PyStr("type"), PyStr("tab")>>,
                        <<PyStr("label"), PyStr("main flow")>> >>),
              PyDict(<< <<PyStr("id"), PyStr("n1")>>,
                        <<PyStr("type"), PyStr("inject")>>,
                        <<PyStr("z"), PyStr("f1")>>,
                        <<PyStr("name"), PyStr("tick")>>,
                        <<PyStr("x"), PyInt(100)>>, <<PyStr("y"), PyInt(40)>> >>),
              PyDict(<< <<PyStr("id"), PyStr("n2")>>,
                        <<PyStr("type"), PyStr("debug")>>,
                        <<PyStr("z"), PyStr("f1")>> >>) >>)

NodeRedAnswers ==
    { NrOk(NodeRedFlows), NrOk(Dict1("flows", PyStr("v2"))),
      NrOk(PyList(<<PyStr("not a node")>>)), NrStatus(404),
      NrFails(Exc("ConnectionRefusedError", "All connection attempts failed")) }

(***************************************************************************)
(* The blocking calls of the tools                                         *)
(***************************************************************************)
BlockingCall(call, timeout) == [call |-> call, timeout |-> timeout]

\* the timeout= an HTTP request of the server carries: requests.get/post/
\* put/delete of the GitHub server give none; httpx is given 30.0 by the
\* memory server (client.post) and by Node-RED (AsyncClient)
http_timeout(p) == IF p = "github" THEN PyNone ELSE PyFloat("30.0")

\* the timeout of a call on the database: psycopg2.connect(**DB_CONFIG) and
\* cursor.execute are given none, nor is conn.fetch/execute of asyncpg;
\* asyncpg.connect is given none either and falls back on its default of 60
db_timeout(p, op) == IF p = "memory" /\ op = "connect" THEN PyInt(60) ELSE PyNone

\* what a call does when every collaborator answers at once
dry_run(p, srv, name, arguments, t) ==
    CASE p = "github" ->
            github_execute_tool(srv, name, arguments, HttpOk(GitHubObject))
      [] p = "postgres" ->
            postgres_call_tool(name, arguments, DbRows(PyList(<<>>)))
      [] p = "memory" ->
            memory_call_tool(name, arguments, EmbedOk,
                             DbRows(PyList(<<MemoryRow>>)), t)
      [] p = "node-red" -> node_red_call_tool(name, arguments, NrOk(NodeRedFlows))
      [] OTHER -> Executed(Return(PyNone), name, <<>>)

\* the calls on collaborators that a tool waits for, in order, each with the
\* timeout it is given; d is what the tool does when they answer
blocking_calls(p, name, d) ==
    LET waits(op) == op \in {"connect", "execute"}
        ops == SelectSeq(d.db, waits)
    IN IF p = "system-monitor"
       THEN CASE name = "get_system_status" ->
                    <<BlockingCall("subprocess.run vcgencmd", PyNone),
                      BlockingCall("subprocess.run uptime", PyNone)>>
              [] name = "check_service_health" ->
                    [i \in 1..Len(ServiceProbes) |->
                        BlockingCall(ServiceProbes[i].service,
                                     ServiceProbes[i].timeout)]
              [] OTHER -> <<>>
       ELSE [i \in 1..Len(d.http) |->
                BlockingCall("http " \o d.http[i].method, http_timeout(p))]
            \o [i \in 1..Len(ops) |-> BlockingCall(ops[i], db_timeout(p, ops[i]))]

(***************************************************************************)
(* Init and the steps                                                      *)
(***************************************************************************)
Unused == [kind |-> "unused"]
NoCall == [kind |-> "none"]

\* what the collaborators did during one call
World(exec, http, host, alive, db, embed) ==
    [exec |-> exec, http |-> http, host |-> host, alive |-> alive,
     db |-> db, embed |-> embed]

\* the credentials each server reads from the environment
Credentials(p) ==
    CASE p = "github" -> {"GH_TOKEN"}
      [] p = "postgres" -> {"POSTGRES_PASSWORD"}
      [] p = "memory" -> {"DATABASE_URL", "POSTGRES_PASSWORD"}
      [] OTHER -> {}

\* a startup that reads no credential
startup_without_check(p, env) ==
    Return(PyNone)

\* what runs before the dispatch loop: GitHubMCPServer.__init__, the module
\* level of postgres_mcp.py and of pgvector_memory_mcp.py. `env` holds the
\* names os.getenv gives a non-empty value for
startup(p, env) ==
    CASE p = "github" /\ "GH_TOKEN" \notin env ->
            Raise(Exc("ValueError", "GH_TOKEN environment variable is required"))
      [] p = "postgres" /\ "POSTGRES_PASSWORD" \notin env ->
            Raise(Exc("ValueError",
                      "POSTGRES_PASSWORD environment variable is required"))
      [] p = "memory" /\ "DATABASE_URL" \notin env
                      /\ "POSTGRES_PASSWORD" \notin env ->
            Raise(Exc("ValueError", "DATABASE_URL or POSTGRES_PASSWORD "
                                    \o "environment variable is required"))
      [] OTHER -> Return(PyNone)

Init ==
    /\ process \in Processes
    /\ phase = "starting"
    /\ self = NewServer(process)
    /\ requires_mimeType \in (IF process \in BaseProcesses THEN BOOLEAN
                              ELSE {TRUE})
    /\ now = 0
    /\ calls = 0
    /\ failures = 0
    /\ request = NoCall
    /\ world = NoCall
    /\ did = NoCall
    /\ response = NoCall
    /\ pending = NoCall
    /\ failed = FALSE
    /\ stderr = <<>>
    /\ stdout = <<>>
    /\ watchdog_running = FALSE
    /\ watchdog_thread = 0
    /\ pollers = <<>>
    /\ polled = NoCall
    /\ listing = NoCall
    /\ environ \in SUBSET Credentials(process)

\* a thread just started on watchdog_loop. stop_pending is history: a
\* stop_watchdog() has cleared the flag since the thread last read it
NewPoller == [pc |-> "start", stop_pending |-> FALSE]

\* the threads after a step that left the handle at `thread`: Thread.start()
\* ran when the handle is new
Spawned(threads, before, thread) ==
    IF thread # before THEN Append(threads, NewPoller) ELSE threads

\* watchdog_thread.is_alive()
is_alive(threads, thread) ==
    thread # 0 /\ threads[thread].pc # "exited"

\* a main() that leaves the watchdog to its callers
main_start_without_watchdog(p, running, thread) ==
    [ret |-> FALSE, running |-> running, thread |-> thread]

\* the start of main(): the system monitor starts the watchdog when
\* WATCHDOG_CONFIG['enabled']
main_start(p, running, thread) ==
    IF p = "system-monitor" /\ WATCHDOG_ENABLED
    THEN start_watchdog(running, thread)
    ELSE [ret |-> FALSE, running |-> running, thread |-> thread]

\* main(): the server starts serving, unless its startup raised: the
\* exception ends the process
Main ==
    /\ phase = "starting"
    /\ IF startup(process, environ).kind = "raise"
       THEN /\ phase' = "aborted"
            /\ UNCHANGED <<watchdog_running, watchdog_thread, pollers>>
       ELSE /\ phase' = "serving"
            /\ LET started == main_start(process, watchdog_running,
                                         watchdog_thread)
               IN /\ watchdog_running' = started.running
                  /\ watchdog_thread' = started.thread
                  /\ pollers' = Spawned(pollers, watchdog_thread, started.thread)
    /\ UNCHANGED <<process, self, requires_mimeType, now, calls, failures,
                   request, world, did, response, pending, failed, stderr,
                   stdout, polled, listing, environ>>

\* time passes
Tick ==
    /\ now < MaxClock
    /\ now' = now + 1
    /\ UNCHANGED <<process, phase, self, requires_mimeType, calls, failures,
                   request, world, did, response, pending, failed, stderr,
                   stdout, watchdog_running, watchdog_thread, pollers, polled,
                   listing, environ>>

\* the dispatch loop waits for a request
Idle == phase = "serving" /\ pending = NoCall

\* the bookkeeping of one served call
Served(rq, w, d, out, fl, err) ==
    /\ request' = [name |-> rq[1], arguments |-> rq[2], at |-> now]
    /\ world' = w
    /\ did' = d
    /\ response' = out
    /\ failed' = fl
    /\ failures' = IF fl THEN failures + 1 ELSE failures
    /\ stderr' = err
    /\ stdout' = IF d = NoCall THEN <<>> ELSE d.stdout
    /\ polled' = NoCall
    /\ listing' = NoCall
    /\ calls' = calls + 1
    /\ UNCHANGED <<process, phase, requires_mimeType, now, pending, environ>>

\* one call through BaseMCPServer.handle_call_tool; exec is what the
\* subclass's execute_tool does with it
Dispatched(rq, w, exec) ==
    \E h \in {handle_call_tool(self, rq[1], rq[2], exec, now,
                                requires_mimeType)} :
       /\ Served(rq, w, IF h.entered THEN exec ELSE NoCall, h.out, h.failed,
                 h.stderr)
       /\ self' = h.self
       /\ UNCHANGED <<watchdog_running, watchdog_thread, pollers>>

\* a subclass of BaseMCPServer whose execute_tool returns or raises anything
BaseRequests ==
    { <<"tool", FullArguments("base")>>, <<"tool", UnserializableArguments>> }

CallBase ==
    /\ process = "base" /\ Idle /\ calls < MaxCalls
    /\ \E rq \in BaseRequests,
          out \in {Return(v) : v \in HandlerResults}
                    \cup {Raise(e) : e \in HandlerFailures} :
          Dispatched(rq, World(out, Unused, Unused, FALSE, Unused, Unused),
                     Executed(out, "tool", <<>>))

\* the descriptors of the tools named `names`, as create_tool builds them
Described(names) ==
    PyList([i \in 1..Len(names) |->
                create_tool(names[i], "", RequiredArguments(names[i]))])

\* what self.get_tools() does: the list of the example and GitHub servers;
\* in any other subclass a list, possibly empty or with a name twice,
\* something that is no list, or an exception
GetToolsAnswers(p) ==
    CASE p = "example" -> {Return(Described(example_get_tools))}
      [] p = "github" -> {Return(Described(github_get_tools))}
      [] OTHER ->
            { Return(PyList(<<create_tool("tool", "first", {"message"}),
                              create_tool("other", "", {})>>)),
              Return(PyList(<<create_tool("tool", "first", {"message"}),
                              create_tool("tool", "second", {})>>)),
              Return(PyList(<<>>)),
              Return(PyNone),
              Raise(Exc("RuntimeError", "boom \"quoted\"")) }

\* a list_tools request, through BaseMCPServer.handle_list_tools
ListTools ==
    /\ process \in BaseProcesses /\ Idle
    /\ \E got \in GetToolsAnswers(process) :
          \E h \in {handle_list_tools(got)} :
             /\ listing' = [got |-> got, out |-> h.out]
             /\ stderr' = h.stderr
    /\ stdout' = <<>>
    /\ request' = NoCall /\ world' = NoCall /\ did' = NoCall
    /\ response' = NoCall /\ failed' = FALSE
    /\ UNCHANGED <<process, phase, self, requires_mimeType, now, calls,
                   failures, pending, watchdog_running, watchdog_thread,
                   pollers, polled, environ>>

CallExample ==
    /\ process = "example" /\ Idle /\ calls < MaxCalls
    /\ \E rq \in Requests("example") :
          \E exec \in {example_execute_tool(rq[1], rq[2], now)} :
             Dispatched(rq, World(Unused, Unused, Unused, FALSE, Unused, Unused),
                        exec)

CallGitHub ==
    /\ process = "github" /\ Idle /\ calls < MaxCalls
    /\ \E rq \in Requests("github") : \E http \in GitHubAnswersTo(rq[2]) :
          \E exec \in {github_execute_tool(self, rq[1], rq[2], http)} :
             Dispatched(rq, World(Unused, http, Unused, FALSE, Unused, Unused),
                        exec)

\* a call on a server built on mcp.server.Server directly: what call_tool
\* returns or raises is what the caller gets
Called(rq, w, d) ==
    /\ Served(rq, w, d, d.out, d.out.kind = "raise", <<>>)
    /\ UNCHANGED self

CallSystemMonitor ==
    /\ process = "system-monitor" /\ Idle /\ calls < MaxCalls
    /\ \E rq \in Requests("system-monitor") :
       \E host \in HostAnswersTo(rq[1]),
          alive \in {is_alive(pollers, watchdog_thread)} :
          \E r \in {system_monitor_call_tool(rq[1], rq[2], host, alive,
                        watchdog_running, watchdog_thread)} :
             /\ Called(rq, World(Unused, Unused, host, alive, Unused, Unused),
                       r.did)
             /\ watchdog_running' = r.running
             /\ watchdog_thread' = r.thread
             /\ pollers' = Spawned(Told(pollers, watchdog_running, r.running),
                                   watchdog_thread, r.thread)

\* a call whose handler reaches a blocking call without a timeout while the
\* collaborator never answers: the handler never returns, and the dispatch
\* loop, which runs one handler at a time, serves nothing after it
Stall ==
    /\ Idle /\ calls < MaxCalls
    /\ \E rq \in Requests(process) :
          \E made \in {blocking_calls(process, rq[1],
                            dry_run(process, self, rq[1], rq[2], now))} :
             \E i \in 1..Len(made) :
                /\ made[i].timeout = PyNone
                /\ \A j \in 1..(i - 1) : made[j].timeout # PyNone
                /\ pending' = made[i]
    /\ UNCHANGED <<process, phase, self, requires_mimeType, now, calls,
                   failures, request, world, did, response, failed, stderr,
                   stdout, watchdog_running, watchdog_thread, pollers, polled,
                   listing, environ>>

\* the lines of `lines` that went to `file`
Written(lines, file) ==
    LET to_file(l) == l.file = file
        text(i) == SelectSeq(lines, to_file)[i].text
    IN [i \in 1..Len(SelectSeq(lines, to_file)) |-> text(i)]

\* one step of the poller thread t that prints `lines` and goes on at pc;
\* a step that read the run flag has seen what stop_watchdog() did to it.
\* The step is the last one now: no call is the last step any more
PollerStep(t, pc, lines) ==
    /\ pollers' = [pollers EXCEPT ![t] =
            [pc |-> pc,
             stop_pending |-> pollers[t].pc = "check" /\ pollers[t].stop_pending]]
    /\ stderr' = Written(lines, "stderr")
    /\ stdout' = Written(lines, "stdout")
    /\ request' = NoCall /\ world' = NoCall /\ did' = NoCall
    /\ response' = NoCall /\ failed' = FALSE
    /\ UNCHANGED <<process, phase, self, requires_mimeType, now, calls,
                   failures, pending, watchdog_thread, listing, environ>>

\* the thread enters watchdog_loop: it announces itself and tests the loop
\* condition for the first time
PollerStart ==
    \E t \in 1..Len(pollers) :
       /\ pollers[t].pc = "start"
       /\ \E r \in {watchdog_loop_enter(watchdog_running, now)} :
             /\ PollerStep(t, r.pc, r.lines)
             /\ watchdog_running' = r.running
       /\ polled' = NoCall

\* one watchdog_check: the thread goes to sleep after it, unless a probe
\* never comes back
Poll ==
    \E t \in 1..Len(pollers), sample \in PollSamples :
       /\ pollers[t].pc = "check"
       /\ \E r \in {watchdog_check(sample, now)} :
             PollerStep(t, IF r.blocked THEN "blocked" ELSE "sleep", r.lines)
       /\ polled' = [thread |-> t, sample |-> sample, at |-> now]
       /\ UNCHANGED watchdog_running

\* time.sleep(check_interval) is over: the thread tests the loop condition
PollerWake ==
    \E t \in 1..Len(pollers) :
       /\ pollers[t].pc = "sleep"
       /\ \E r \in {watchdog_loop_test(watchdog_running, now)} :
             /\ PollerStep(t, r.pc, r.lines)
             /\ watchdog_running' = r.running
       /\ polled' = NoCall

CallPostgres ==
    /\ process = "postgres" /\ Idle /\ calls < MaxCalls
    /\ \E rq \in Requests("postgres"), db \in DbAnswers :
          \E d \in {postgres_call_tool(rq[1], rq[2], db)} :
          /\ Called(rq, World(Unused, Unused, Unused, FALSE, db, Unused), d)
          /\ UNCHANGED <<watchdog_running, watchdog_thread, pollers>>

CallMemory ==
    /\ process = "memory" /\ Idle /\ calls < MaxCalls
    /\ \E rq \in Requests("memory"), db \in DbAnswers, embed \in EmbedAnswers :
          \E d \in {memory_call_tool(rq[1], rq[2], embed, db, now)} :
          /\ Called(rq, World(Unused, Unused, Unused, FALSE, db, embed), d)
          /\ UNCHANGED <<watchdog_running, watchdog_thread, pollers>>

CallNodeRed ==
    /\ process = "node-red" /\ Idle /\ calls < MaxCalls
    /\ \E rq \in Requests("node-red"), http \in NodeRedAnswers :
          \E d \in {node_red_call_tool(rq[1], rq[2], http)} :
          /\ Called(rq, World(Unused, http, Unused, FALSE, Unused, Unused), d)
          /\ UNCHANGED <<watchdog_running, watchdog_thread, pollers>>

Next ==
    \/ Main
    \/ Tick
    \/ ListTools
    \/ CallBase
    \/ CallExample
    \/ CallGitHub
    \/ CallSystemMonitor
    \/ CallPostgres
    \/ CallMemory
    \/ CallNodeRed
    \/ Stall
    \/ PollerStart
    \/ Poll
    \/ PollerWake

Spec == Init /\ [][Next]_vars

(***************************************************************************)
(* What the last call looked like                                          *)
(***************************************************************************)
\* a call was served by a server built on BaseMCPServer
Dispatching == process \in BaseProcesses /\ calls > 0 /\ request # NoCall

\* ... and its execute_tool returned a value
HandlerReturned == Dispatching /\ did # NoCall /\ did.out.kind = "return"

\* the required arguments of the requested tool are all there, and the
\* arguments are what json.loads can have produced
ArgumentsPresent ==
    /\ IsJson(request.arguments)
    /\ \A k \in RequiredArguments(request.name) : dict_has(request.arguments, k)

\* a list of content blocks
IsContentList(v) ==
    v.kind = "list" /\ \A i \in 1..Len(v.items) : IsContent(v.items[i])

\* the outcome is a return of exactly one text block
IsOneTextBlock(out) ==
    /\ out.kind = "return"
    /\ out.value.kind = "list"
    /\ Len(out.value.items) = 1
    /\ out.value.items[1].kind = "TextContent"
    /\ out.value.items[1].type = "text"

\* the exception the try block of the last dispatched call raised
RaisedInTry ==
    IF did = NoCall THEN json_dumps(request.arguments, TRUE, FALSE).exc
    ELSE IF did.out.kind = "raise" THEN did.out.exc
    ELSE format_result(did.out.value, requires_mimeType).exc

\* what execute_tool of a server just constructed does with the last request
FreshExec ==
    CASE process = "base" -> Executed(world.exec, "tool", <<>>)
      [] process = "example" ->
            example_execute_tool(request.name, request.arguments, request.at)
      [] OTHER ->
            github_execute_tool(NewServer(process), request.name,
                                request.arguments, world.http)

\* what a dispatcher just constructed answers to the last request
FreshResponse ==
    handle_call_tool(NewServer(process), request.name, request.arguments,
                     FreshExec, request.at, requires_mimeType).out

(***************************************************************************)
(* Properties                                                              *)
(***************************************************************************)
\* C1: BaseMCPServer.handle_call_tool never raises. Whatever the name, the
\* arguments and the exception raised by execute_tool, by the logging of the
\* arguments or by the formatting of the result, the call returns a list of
\* content blocks.
C1_NeverRaises ==
    Dispatching => response.kind = "return" /\ IsContentList(response.value)

\* execute_tool returned, the formatting of its value raised, and the call
\* still returned a list
C1_FormatFailureAnswered ==
    /\ HandlerReturned /\ failed
    /\ format_result(did.out.value, requires_mimeType).kind = "raise"
    /\ response.kind = "return"

\* C2: in every server, a call of a listed tool with its required arguments
\* present never lets an exception escape call_tool, whatever the
\* collaborators do; the caller gets a list of content blocks.
C2_NoExceptionEscapes ==
    (/\ calls > 0 /\ request # NoCall
     /\ request.name \in ListedTools(process) /\ ArgumentsPresent) => response.kind = "return" /\ IsContentList(response.value)

\* C3: every invocation returns an envelope, a failing invocation leaves the
\* dispatcher as it was, the dispatcher keeps serving, and an invocation
\* returns what a dispatcher without the earlier failing invocations returns.
C3_FailuresLeaveNoTrace ==
    Dispatching =>
        /\ response.kind = "return"
        /\ phase = "serving"
        /\ self = NewServer(process)
        /\ response = FreshResponse

\* a GitHub call that succeeded after an earlier call had failed
C3_SuccessAfterFailure ==
    /\ process = "github" /\ calls = 2 /\ failures = 1 /\ ~failed
    /\ did # NoCall /\ did.out.kind = "return"
    /\ IsOneTextBlock(response)

\* C4: when the handler fails inside handle_call_tool, the envelope is exactly
\* one text block whose text is the JSON of an object with exactly the keys
\* error, tool and timestamp; error is str(exception), tool the requested name.
C4_ErrorEnvelope ==
    (Dispatching /\ failed) =>
        /\ IsOneTextBlock(response)
        /\ LET payload == json_loads_flat(response.value.items[1].text)
           IN /\ payload.ok
              /\ Len(payload.items) = 3
              /\ loaded_keys(payload) = {"error", "tool", "timestamp"}
              /\ loaded_value(payload, "error") = exc_str(RaisedInTry)
              /\ loaded_value(payload, "tool") = request.name

\* a GitHub tool called without its owner argument: KeyError('owner'), whose
\* str() keeps the quotes
C4_KeyErrorReported ==
    /\ process = "github" /\ calls > 0 /\ failed
    /\ did # NoCall /\ did.out = Raise(Exc("KeyError", "owner"))
    /\ loaded_value(json_loads_flat(response.value.items[1].text), "error")
            = "'owner'"

\* C5: in a server derived from BaseMCPServer, a call with a name that is not
\* among the listed tools returns exactly one text block whose JSON has tool
\* equal to the name and error equal to "Unknown tool: <name>"; no tool runs,
\* no request is sent, nothing is raised. The arguments are those the
\* transport delivers: JSON values.
C5_UnknownToolEnvelope ==
    (/\ process \in {"example", "github"} /\ calls > 0 /\ request # NoCall
     /\ request.name \notin ListedTools(process)
     /\ IsJson(request.arguments)) =>
        /\ IsOneTextBlock(response)
        /\ LET payload == json_loads_flat(response.value.items[1].text)
           IN /\ payload.ok
              /\ loaded_value(payload, "tool") = request.name
              /\ loaded_value(payload, "error") = "Unknown tool: " \o request.name
        /\ did.branch = "else"
        /\ did.http = <<>>

\* the GitHub server was asked for a tool it does not list
C5_UnknownToolCalled ==
    /\ process = "github" /\ calls > 0 /\ request # NoCall
    /\ request.name = "nonexistent"
    /\ IsJson(request.arguments)
    /\ failed /\ did.branch = "else"
    /\ IsOneTextBlock(response)

\* C6: in the standalone servers, a call with an unknown tool name returns
\* exactly one text block whose text is the JSON of an ErrorPayload carrying
\* error, tool and timestamp.
C6_StandaloneUnknownTool ==
    (/\ process \in StandaloneProcesses /\ calls > 0 /\ request # NoCall
     /\ request.name \notin ListedTools(process)) =>
        /\ IsOneTextBlock(response)
        /\ LET payload == json_loads_flat(response.value.items[1].text)
           IN /\ payload.ok
              /\ {"error", "tool", "timestamp"} \subseteq loaded_keys(payload)

\* C7: whenever the handler returns successfully, the envelope that
\* handle_call_tool returns holds at least one content block.
C7_SuccessEnvelopeNotEmpty ==
    HandlerReturned =>
        /\ response.kind = "return"
        /\ Len(response.value.items) >= 1

\* C8: _format_result is total: for every value the handler returns it
\* returns an envelope and never fails.
C8_FormatResultTotal ==
    HandlerReturned =>
        format_result(did.out.value, requires_mimeType).kind = "return"

\* C9: normalization is idempotent. A list whose items are all content blocks
\* comes back unchanged, what _format_result returns is such a list, and
\* formatting it again gives the same envelope.
C9_NormalizationIdempotent ==
    HandlerReturned =>
        LET r == did.out.value
            once == format_result(r, requires_mimeType)
        IN /\ IsContentList(r) => once = Return(r)
           /\ once.kind = "return" =>
                /\ response = once
                /\ format_result(response.value, requires_mimeType) = once

\* the handler returned a text block and an image block
C9_ContentListPassedThrough ==
    /\ HandlerReturned
    /\ did.out.value
         = PyList(<<TextContent("x"), ImageContent("AAAA", "image/png")>>)
    /\ response = did.out

\* C10: a handler result that is no string, no bytes and no list of content
\* blocks becomes exactly one text block whose text is the JSON serialization
\* of the value, non-serializable leaves replaced by their str(); a string
\* becomes exactly one text block holding that string.
C10_JsonTextBlock ==
    HandlerReturned =>
        LET r == did.out.value
            text == json_dumps(r, TRUE, TRUE)
        IN /\ r.kind = "str" => response = Text1(r.s)
           /\ (r.kind \notin {"str", "bytes"} /\ ~IsContentList(r)) =>
                /\ text.ok
                /\ response = Text1(text.text)
(***************************************************************************)
(* The watchdog                                                            *)
(***************************************************************************)
\* the step is a call of the tool `name` on the system monitor
MonitorCall(name) ==
    /\ process = "system-monitor"
    /\ calls' = calls + 1
    /\ request'.name = name

\* the answer of start_watchdog / stop_watchdog, as the caller reads it
WatchdogAnswer(success, message) ==
    Text1("{\n  \"success\": " \o success \o ",\n  \"message\": \""
            \o message \o "\"\n}")

\* C11: after stop() on a running monitor the call returns success, the run
\* flag is cleared, and every poller that was running reads the cleared flag
\* at its next wake and ends: once its iteration in progress and one sleep
\* are over, the thread is not alive.
C11_StopEndsPoller ==
    [][/\ (MonitorCall("stop_watchdog") /\ watchdog_running) =>
            /\ response' = WatchdogAnswer("true", "Watchdog stopped")
            /\ ~watchdog_running'
       /\ \A t \in 1..Len(pollers) :
            (/\ pollers[t].stop_pending
             /\ pollers[t].pc \in {"start", "sleep"}
             /\ pollers'[t].pc # pollers[t].pc) => pollers'[t].pc = "exited"
      ]_vars

\* C12: start() on a running monitor returns failure and changes nothing:
\* the run flag stays true, the handle is the same, no thread is spawned.
C12_StartWhileRunning ==
    [][(MonitorCall("start_watchdog") /\ watchdog_running) =>
            /\ response' = WatchdogAnswer("false",
                                "Watchdog already running or disabled")
            /\ watchdog_running'
            /\ watchdog_thread' = watchdog_thread
            /\ pollers' = pollers
      ]_vars

\* start_watchdog was called on a running monitor and refused
C12_StartRefused ==
    /\ process = "system-monitor" /\ calls > 0 /\ request # NoCall
    /\ request.name = "start_watchdog"
    /\ response = WatchdogAnswer("false", "Watchdog already running or disabled")
    /\ watchdog_running /\ Len(pollers) = 1

\* C13: stop() on a stopped monitor returns failure and leaves the state as
\* it was; the stop_watchdog tool reports success false.
C13_StopWhileStopped ==
    [][(MonitorCall("stop_watchdog") /\ ~watchdog_running) =>
            /\ response' = WatchdogAnswer("false", "Watchdog was not running")
            /\ UNCHANGED <<watchdog_running, watchdog_thread, pollers>>
      ]_vars

\* C14: start() on a stopped monitor with monitoring enabled returns
\* success, sets the run flag and spawns exactly one new poller thread, which
\* the handle then names.
C14_StartWhileStopped ==
    [][(MonitorCall("start_watchdog") /\ ~watchdog_running /\ WATCHDOG_ENABLED) =>
            /\ response' = WatchdogAnswer("true", "Watchdog started")
            /\ watchdog_running'
            /\ Len(pollers') = Len(pollers) + 1
            /\ SubSeq(pollers', 1, Len(pollers)) = pollers
            /\ pollers'[Len(pollers')].pc = "start"
            /\ watchdog_thread' = Len(pollers')
      ]_vars

\* a caller stopped the watchdog and started it again: a second thread
C14_Restarted ==
    /\ process = "system-monitor" /\ calls = 2 /\ request # NoCall
    /\ request.name = "start_watchdog"
    /\ response = WatchdogAnswer("true", "Watchdog started")
    /\ watchdog_running /\ watchdog_thread = 2 /\ Len(pollers) = 2
    /\ pollers[2].pc = "start"

\* C15 as stated: when the server begins serving and no caller has invoked
\* start(), the run flag is false and no poller is alive.
C15_StoppedWhenServing ==
    (process = "system-monitor" /\ phase = "serving" /\ calls = 0) =>
        /\ ~watchdog_running
        /\ \A t \in 1..Len(pollers) : pollers[t].pc = "exited"

\* C15 amended: the monitor is Stopped until main() runs; main() starts the
\* watchdog, so when the server begins serving the run flag is true and one
\* poller has been spawned, and a first call, when it is start_watchdog, is
\* refused.
C15_AutoStarted ==
    /\ (process = "system-monitor" /\ phase = "starting") =>
            ~watchdog_running /\ watchdog_thread = 0 /\ pollers = <<>>
    /\ (process = "system-monitor" /\ phase = "serving" /\ calls = 0) =>
            watchdog_running /\ watchdog_thread = 1 /\ Len(pollers) = 1
    /\ (process = "system-monitor" /\ calls = 1 /\ request # NoCall
            /\ request.name = "start_watchdog") =>
            response = WatchdogAnswer("false",
                            "Watchdog already running or disabled")

\* the first call of a session was start_watchdog
C15_FirstCallStarts ==
    /\ process = "system-monitor" /\ phase = "serving" /\ calls = 1
    /\ request # NoCall /\ request.name = "start_watchdog"
    /\ Len(pollers) = 1

\* the last step was a watchdog_check
Polled == process = "system-monitor" /\ polled # NoCall

\* how many of the lines the last step wrote on standard error hold `part`
Alerts(part) ==
    Cardinality({i \in 1..Len(stderr) : contains(stderr[i], part, 1)})

\* the temperature the host reported, in tenths of a degree; 0 without one
Reading(sample) ==
    IF sample.vcgencmd.kind # "ok" THEN 0
    ELSE CASE sample.vcgencmd.stdout = "temp=48.3'C\n" -> 483
           [] sample.vcgencmd.stdout = "temp=70.0'C\n" -> 700
           [] sample.vcgencmd.stdout = "temp=71.5'C\n" -> 715
           [] sample.vcgencmd.stdout = "temp=85.0'C\n" -> 850
           [] OTHER -> 0

Services == {"docker", "qdrant", "postgresql", "embeddings"}

\* C16: a watchdog_check that does not fail prints exactly one WARNING line
\* for each of cpu, memory, disk and temperature whose sample is strictly
\* above its threshold (85, 80, 90 percent, 70 degrees), one ERROR line for
\* each probed service that is not healthy, and nothing else.
C16_AlertsExact ==
    (Polled /\ polled.sample.psutil = HostOk) =>
        LET sample == polled.sample
            one(b) == IF b THEN 1 ELSE 0
            unhealthy == {v \in Services : sample.services[v] # "up"}
        IN /\ Alerts("] WARNING: High CPU usage: ")
                = one(sample.cpu.tenths > 850)
           /\ Alerts("] WARNING: High memory usage: ")
                = one(sample.memory.tenths > 800)
           /\ Alerts("] WARNING: High disk usage: ")
                = one(sample.disk.tenths > 900)
           /\ Alerts("] WARNING: High temperature: ")
                = one(Reading(sample) > 700)
           /\ \A v \in Services :
                Alerts("] ERROR: Service " \o v \o " is down or unreachable")
                    = one(v \in unhealthy)
           /\ Len(stderr) = one(sample.cpu.tenths > 850)
                              + one(sample.memory.tenths > 800)
                              + one(sample.disk.tenths > 900)
                              + one(Reading(sample) > 700)
                              + Cardinality(unhealthy)

\* cpu = 90 against a threshold of 85: the one line of the poll
C16_CpuWarning ==
    /\ Polled /\ polled.sample.cpu.tenths = 900
    /\ stderr = <<"[2025-01-01 00:00:00] WARNING: High CPU usage: 90.0%">>

\* something the iteration asked threw: a psutil sampler, the temperature
\* command, or the probe of a service (an absent command, a refused
\* connection, an expired timeout)
Threw(sample) ==
    \/ sample.psutil.kind = "raises"
    \/ sample.vcgencmd.kind \in {"unreachable", "hangs"}
    \/ \E v \in Services : sample.services[v] \in {"unreachable", "hangs"}

\* C17 as stated: an iteration in which a sampler or a probe throws is
\* caught, produces an ERROR alert, and the poller goes on.
C17_FailureAlerted ==
    (Polled /\ Threw(polled.sample)) =>
        /\ Alerts("] ERROR: ") >= 1
        /\ pollers[polled.thread].pc = "sleep"

\* C17 amended: a sampler that throws is caught and gives the one ERROR
\* line "Watchdog check failed"; a service probe that throws is caught and
\* gives the one ERROR line of that service; a temperature command that
\* throws is caught without a line. None of them ends the poller: it sleeps,
\* and while the run flag is set a poller that wakes checks again.
C17_FailureContained ==
    /\ [](Polled =>
            LET sample == polled.sample
            IN /\ pollers[polled.thread].pc = "sleep"
               /\ sample.psutil.kind = "raises" =>
                    stderr = <<"[" \o strftime(polled.at)
                                \o "] ERROR: Watchdog check failed: "
                                \o exc_str(sample.psutil.exc)>>
               /\ sample.psutil.kind # "raises" =>
                    /\ Alerts("] ERROR: ")
                         = Cardinality({v \in Services : sample.services[v] # "up"})
                    /\ \A v \in Services :
                         sample.services[v] \in {"unreachable", "hangs"} =>
                            Alerts("] ERROR: Service " \o v
                                    \o " is down or unreachable") = 1)
    /\ [][\A t \in 1..Len(pollers) :
            (pollers[t].pc = "sleep" /\ pollers'[t].pc # "sleep"
                /\ watchdog_running) => pollers'[t].pc = "check"]_vars

\* psutil threw during a poll, and the thread went to sleep as usual
C17_SamplerFailed ==
    /\ Polled /\ polled.sample.psutil.kind = "raises"
    /\ Len(stderr) = 1
    /\ pollers[polled.thread].pc = "sleep"

\* C18: the poller only writes lines on standard error: no step of
\* watchdog_loop or watchdog_check writes the run flag, the thread handle,
\* standard output, or anything the dispatch path uses (the server, its
\* phase, its counters, the call it is blocked in).
C18_PollerWritesOnlyAlerts ==
    [][(PollerStart \/ Poll \/ PollerWake) =>
            /\ stdout' = <<>>
            /\ UNCHANGED <<watchdog_running, watchdog_thread, process, phase,
                           self, calls, failures, pending, requires_mimeType,
                           now>>
      ]_vars

\* a poll printed alerts after a call had been served
C18_AlertsAfterCall ==
    /\ Polled /\ Len(stderr) >= 2
    /\ calls > 0

\* C19: every watchdog_check comes back, also when a dependency never
\* answers: the temperature command and the four service probes run with a
\* timeout, so no poller thread stays blocked in a probe.
C19_PollsComeBack ==
    /\ \A t \in 1..Len(pollers) : pollers[t].pc # "blocked"
    /\ Polled => pollers[polled.thread].pc = "sleep"

\* a poll during which PostgreSQL never answered
C19_ProbeTimedOut ==
    /\ Polled /\ polled.sample.services.postgresql = "hangs"
    /\ pollers[polled.thread].pc = "sleep"
    /\ Alerts("] ERROR: Service postgresql is down or unreachable") = 1

\* C20: every network, database or subprocess call of a tool handler has a
\* timeout, so no call_tool invocation waits forever for a collaborator that
\* never answers, and the dispatch loop is never blocked in a call.
C20_EveryCallReturns ==
    pending = NoCall

(***************************************************************************)
(* Connections, arguments, listing                                         *)
(***************************************************************************)
\* the last step was a call served by the postgres or the memory server
DbCall ==
    /\ process \in {"postgres", "memory"}
    /\ request # NoCall /\ did # NoCall

\* how many times `op` was called on the database during the last call
Count(op) == Cardinality({i \in 1..Len(did.db) : did.db[i] = op})

\* the connections the last call opened: connect() returned a connection
\* unless the server refused it
Opened == IF world.db.kind = "refused" THEN 0 ELSE Count("connect")

\* C21: when a postgres or memory invocation has returned, by success, by a
\* query error or by an exception, every connection it opened is closed; an
\* invocation that uses the database connects for itself, once, before
\* anything else, and close is the last thing it does on the connection.
C21_ConnectionClosed ==
    DbCall =>
        /\ Count("close") = Opened
        /\ Opened <= 1
        /\ did.db # <<>> => did.db[1] = "connect"
        /\ Opened = 1 => did.db[Len(did.db)] = "close"

\* a statement failed on an open connection, which was rolled back and closed
C21_ClosedAfterError ==
    /\ DbCall /\ process = "postgres"
    /\ world.db.kind = "error"
    /\ did.db = <<"connect", "execute", "rollback", "close">>

\* C22: in every server, a call of a listed tool that omits an argument the
\* tool's schema declares required is answered inside the call: call_tool
\* returns a list of content blocks and no exception escapes it.
C22_MissingArgumentContained ==
    (/\ calls > 0 /\ request # NoCall
     /\ request.name \in ListedTools(process)
     /\ \E k \in RequiredArguments(request.name) :
            ~dict_has(request.arguments, k)) =>
        response.kind = "return" /\ IsContentList(response.value)

\* the last step was a list_tools request
Listed == listing # NoCall

\* the names of the descriptors in a list of tools, in order
ToolNames(tools) == [i \in 1..Len(tools.items) |-> tools.items[i].name]

\* C23: handle_list_tools returns the tools of get_tools in their
\* declaration order; when get_tools fails, the failure is logged and
\* re-raised to the caller, and an empty list is returned only when
\* get_tools returned one.
C23_ListingOrFailure ==
    Listed =>
        /\ (listing.got.kind = "return" /\ listing.got.value.kind = "list") =>
                /\ listing.out = listing.got
                /\ stderr = <<>>
        /\ listing.got.kind = "raise" =>
                /\ listing.out = listing.got
                /\ stderr = <<LogLine("ERROR", "Error listing tools: "
                                        \o exc_str(listing.got.exc))>>
        /\ listing.out = Return(PyList(<<>>)) => listing.got = Return(PyList(<<>>))
        /\ process = "example" =>
                /\ listing.out.kind = "return"
                /\ ToolNames(listing.out.value) = <<"echo", "get_time">>
        /\ process = "github" =>
                /\ listing.out.kind = "return"
                /\ ToolNames(listing.out.value) = github_get_tools

\* get_tools raised and the caller of handle_list_tools got the exception
C23_FailureReRaised ==
    /\ Listed /\ listing.got.kind = "raise"
    /\ listing.out.kind = "raise"
    /\ Len(stderr) = 1

\* C24: the names of the tools a server advertises are unique, and a
\* descriptor registered under a name that is already registered replaces
\* the earlier one: the listing holds one descriptor of the name, the last.
C24_NamesUnique ==
    (Listed /\ listing.out.kind = "return"
            /\ listing.got.kind = "return" /\ listing.got.value.kind = "list") =>
        LET given == listing.got.value.items
            tools == listing.out.value.items
        IN /\ \A i, j \in 1..Len(tools) :
                tools[i].name = tools[j].name => i = j
           /\ \A i \in 1..Len(given) :
                (\A j \in (i + 1)..Len(given) : given[j].name # given[i].name)
                    => \E k \in 1..Len(tools) : tools[k] = given[i]

(***************************************************************************)
(* Startup                                                                 *)
(***************************************************************************)
\* a credential the server requires is missing from the environment
CredentialMissing ==
    \/ process = "github" /\ "GH_TOKEN" \notin environ
    \/ process = "postgres" /\ "POSTGRES_PASSWORD" \notin environ
    \/ process = "memory" /\ environ = {}

\* C25: when a required credential is missing (GH_TOKEN, POSTGRES_PASSWORD,
\* both DATABASE_URL and POSTGRES_PASSWORD for the memory server), startup
\* aborts before the dispatch loop starts: the server is never serving, and
\* no list_tools or call_tool request is served or begun.
C25_AbortsWithoutCredential ==
    CredentialMissing =>
        /\ phase \in {"starting", "aborted"}
        /\ calls = 0 /\ request = NoCall /\ listing = NoCall
        /\ pending = NoCall

\* the GitHub server was started without GH_TOKEN and its main() has ended
C25_GitHubAborted ==
    /\ process = "github" /\ environ = {}
    /\ phase = "aborted"

(***************************************************************************)
(* One poller, committed writes, a clean standard output                   *)
(***************************************************************************)
\* the poller threads that are alive: started and not returned from
\* watchdog_loop
AlivePollers == {t \in 1..Len(pollers) : pollers[t].pc # "exited"}

\* C26: at most one poller thread is alive at any time, for every
\* interleaving of start(), stop() and poller steps.
C26_OnePoller ==
    Cardinality(AlivePollers) <= 1

\* the text of the one block the last call returned
AnswerText == response.value.items[1].text

\* the text starts with `prefix`
StartsWith(text, prefix) ==
    Len(text) >= Len(prefix) /\ SubSeq(text, 1, Len(prefix)) = prefix

\* the last call was a postgres_insert, postgres_update or postgres_delete
\* that reported no error
WriteSucceeded ==
    /\ process = "postgres" /\ request # NoCall
    /\ request.name \in {"postgres_insert", "postgres_update", "postgres_delete"}
    /\ IsOneTextBlock(response)
    /\ ~StartsWith(AnswerText, "Query error: ")
    /\ ~StartsWith(AnswerText, "Error: ")

\* C27: every postgres_insert, postgres_update or postgres_delete that
\* reports success has committed its transaction before its connection is
\* closed.
C27_WritesCommitted ==
    WriteSucceeded =>
        \E i, j \in 1..Len(did.db) :
            i < j /\ did.db[i] = "commit" /\ did.db[j] = "close"

\* C28: nothing but protocol responses is written on standard output: no
\* step of any server prints a line on it.
C28_StdoutClean ==
    stdout = <<>>

(***************************************************************************)
(* Errors of the collaborators                                             *)
(***************************************************************************)
\* the last call sent a request that the GitHub API answered with an error
\* status and a JSON object that carries a message
ApiErrorWithMessage ==
    /\ process = "github" /\ request # NoCall /\ did # NoCall
    /\ did.http # <<>>
    /\ world.http.kind = "status_error"
    /\ world.http.body.kind = "dict"
    /\ dict_has(world.http.body, "message")

\* C29: when the GitHub API answers with an error status and a JSON body
\* that carries a message, the exception of _make_request, and so the error
\* field of the ErrorPayload handle_call_tool returns, contains the message.
C29_ApiMessageReported ==
    ApiErrorWithMessage =>
        /\ failed
        /\ did.out.kind = "raise"
        /\ contains(exc_str(did.out.exc),
                    py_str(dict_item(world.http.body, "message")), 1)
        /\ contains(loaded_value(json_loads_flat(AnswerText), "error"),
                    py_str(dict_item(world.http.body, "message")), 1)

\* the last call was a store_memory or search_memory with its required
\* arguments, and the embedding service failed or gave no vector
EmbeddingFailed ==
    /\ process = "memory" /\ request # NoCall /\ did # NoCall
    /\ request.name \in {"store_memory", "search_memory"}
    /\ ArgumentsPresent
    /\ (world.embed.kind = "fails" \/ world.embed.vector = <<>>)

\* C30: when the embedding service fails or returns no vector, store_memory
\* and search_memory return an error text block without opening a database
\* connection: no call is made on the database, whatever state it is in.
C30_NoEmbeddingNoDatabase ==
    EmbeddingFailed =>
        /\ response = Text1(IF request.name = "store_memory"
                            THEN "Error: Failed to generate embedding"
                            ELSE "Error: Failed to generate query embedding")
        /\ did.db = <<>>
        /\ did.http = <<HttpRequest("POST", "/embed")>>

\* store_memory was called while the embedding service was down and the
\* database would have answered
C30_StoreWithoutEmbedding ==
    /\ EmbeddingFailed /\ request.name = "store_memory"
    /\ world.embed.kind = "fails"
    /\ world.db.kind = "no_result"
    /\ did.db = <<>>

====
